---------------------------- MODULE Spec2Model ----------------------------
(***************************************************************************)
(* A model of the resume-parsing pipeline of InterviewAce's ai-services:   *)
(*   - the quality scorer of fine_tuning/prepare_resume_dataset.py and     *)
(*     its extractors (skills, experience summary, education level,        *)
(*     experience years),                                                  *)
(*   - the dataset builder (main) of the same file,                        *)
(*   - the /parse handler of resume_parser.py with its confidence gate,    *)
(*   - the training loop of fine_tuning/train_lora.py,                     *)
(*   - the text vectorizers of train_lora.py and resume_parser.py,         *)
(*   - the /generate handler of interview_generator.py with its cache,     *)
(*   - the /interview/stt handler of voice_stt.py with its temporary files.*)
(* Each component has its own specification over the shared variables;     *)
(* the variables of the other components stay at their idle values.        *)
(*                                                                         *)
(* Conventions.  A Python str is a sequence of one-character strings.      *)
(* A float that the code only compares with thresholds is an integer in a  *)
(* fixed unit: experience_years in tenths of a year, probabilities and     *)
(* val_split in percent.                                                   *)
(***************************************************************************)
EXTENDS Integers, Sequences, FiniteSets, TLC

VARIABLES
    \* transform_resume: the record, the current date, the locals, the position
    resume, now, skills, experience_summary, education_level, experience_years,
    score, qpc,
    \* parse_resume: the process environment, one request and its locals
    env, req, ppc, text_content, ml_parser, model_out, ml_result, confidence,
    ml_error, snippet, llm_called, ai_error, response,
    \* prepare_resume_dataset.main
    input_exists, lines, val_split, line_num, examples, split_idx,
    train_examples, val_examples, train_file, val_file, dpc,
    \* train_resume_parser
    train_ds, val_ds, vocab, skill_vocab, state_dict, epoch, best_val_loss,
    avg_val_loss, val_losses, model_pt, saves, tpc, max_tokens, min_count,
    \* simple_vectorize and vectorize_text on one text and one vocabulary
    input_text, checkpoint_vocab, train_vec, infer_vec, vpc,
    \* concurrent /parse requests: models/resume_parser_ml/model.pt on disk and,
    \* per request, its position, its text and what its handler holds
    model_file, handlers,
    \* interview_generator.py: the module globals api_key and _cache and, per
    \* /generate request, its position, its body and its response
    api_key, cache, generators,
    \* voice_stt.py: the module global model, the temporary files on disk and
    \* one /interview/stt request with its locals
    model, temp_files, stt

scoreVars   == <<resume, now, skills, experience_summary, education_level,
                 experience_years, score, qpc>>
parseVars   == <<env, req, ppc, text_content, ml_parser, model_out, ml_result,
                 confidence, ml_error, snippet, llm_called, ai_error, response>>
datasetVars == <<input_exists, lines, val_split, line_num, examples, split_idx,
                 train_examples, val_examples, train_file, val_file, dpc>>
trainVars   == <<train_ds, val_ds, vocab, skill_vocab, state_dict, epoch,
                 best_val_loss, avg_val_loss, val_losses, model_pt, saves, tpc,
                 max_tokens, min_count>>
vectorVars  == <<input_text, checkpoint_vocab, train_vec, infer_vec, vpc>>
inferVars   == <<model_file, handlers>>
genVars     == <<api_key, cache, generators>>
voiceVars   == <<model, temp_files, stt>>
vars        == <<scoreVars, parseVars, datasetVars, trainVars, vectorVars,
                 inferVars, genVars, voiceVars>>

\* Python's None, for the variables that hold strings
None == "None"

\* A text by its runs: `lead` whitespace characters, then `body` characters
\* that begin and end with a non-blank one, then `trail` whitespace characters.
NoText == [lead |-> 0, body |-> 0, trail |-> 0]
\* no parser loaded: _load_ml_parser returned (None, None)
NoParser == [loaded |-> FALSE, num_skills |-> 0]
NoModelOut == [skills_probs |-> <<>>, score_pred |-> 0]
NoResult == [kind |-> "None"]
\* a confidence is "nan" or the fraction num / den
NoConfidence == [kind |-> "None", num |-> 0, den |-> 1]
\* an output file that has not been opened for writing
NoFile == [written |-> FALSE, rows |-> <<>>]
\* float('inf'); a finite loss is [inf |-> FALSE, v |-> the loss]
Infinity == [inf |-> TRUE, v |-> 0]
\* no model.pt in the output directory
NoCheckpoint ==
    [exists |-> FALSE, state_dict |-> 0, vocab |-> <<>>, skill_vocab |-> <<>>,
     num_skills |-> 0, input_dim |-> 0, epoch |-> 0, val_loss |-> 0]
NoResponse == [success |-> FALSE, data |-> [kind |-> "None"], message |-> "None"]

ScoreIdle ==
    /\ resume = None /\ now = 0 /\ skills = <<>> /\ experience_summary = <<>>
    /\ experience_years = 0 /\ education_level = <<>> /\ score = None
    /\ qpc = "idle"
ParseIdle ==
    /\ env = None /\ req = None /\ ppc = "idle" /\ text_content = NoText
    /\ ml_parser = NoParser /\ model_out = NoModelOut /\ ml_result = NoResult
    /\ confidence = NoConfidence /\ ml_error = None /\ snippet = NoText
    /\ llm_called = FALSE /\ ai_error = None /\ response = NoResponse
DatasetIdle ==
    /\ input_exists = FALSE /\ lines = <<>> /\ val_split = 0 /\ line_num = 0
    /\ examples = <<>> /\ split_idx = 0 /\ train_examples = <<>>
    /\ val_examples = <<>> /\ train_file = NoFile /\ val_file = NoFile
    /\ dpc = "idle"
TrainIdle ==
    /\ train_ds = 0 /\ val_ds = 0 /\ vocab = <<>> /\ skill_vocab = <<>>
    /\ state_dict = 0 /\ epoch = 0 /\ best_val_loss = Infinity
    /\ avg_val_loss = 0 /\ val_losses = <<>> /\ model_pt = NoCheckpoint
    /\ saves = {} /\ tpc = "idle" /\ max_tokens = 0 /\ min_count = 0
InferIdle == model_file = 0 /\ handlers = <<>>
GenIdle == api_key = FALSE /\ cache = <<>> /\ generators = <<>>
VoiceIdle == model = FALSE /\ temp_files = {} /\ stt = <<>>
VectorIdle ==
    /\ input_text = <<>> /\ checkpoint_vocab = <<>> /\ train_vec = <<>>
    /\ infer_vec = <<>> /\ vpc = "idle"

-----------------------------------------------------------------------------
(* Python built-ins on numbers, lists and strings                           *)

Min(a, b) == IF a <= b THEN a ELSE b
Max(a, b) == IF a >= b THEN a ELSE b
Abs(a)    == IF a >= 0 THEN a ELSE 0 - a

\* s[:n]
Prefix(s, n) == SubSeq(s, 1, Min(n, Len(s)))
\* s[n:]
Suffix(s, n) == SubSeq(s, Min(n, Len(s)) + 1, Len(s))

\* a list of n placeholder items, for arguments of which only len() is read
ListOfLen(n) == [i \in 1..n |-> i]

Upper == <<"A","B","C","D","E","F","G","H","I","J","K","L","M",
           "N","O","P","Q","R","S","T","U","V","W","X","Y","Z">>
Lowers == <<"a","b","c","d","e","f","g","h","i","j","k","l","m",
            "n","o","p","q","r","s","t","u","v","w","x","y","z">>

LowerChar(c) ==
    IF \E i \in 1..26 : Upper[i] = c
    THEN Lowers[CHOOSE i \in 1..26 : Upper[i] = c]
    ELSE c

\* str.lower()
Lower(s) == [i \in 1..Len(s) |-> LowerChar(s[i])]

IsSpace(c) == c \in {" ", "\t", "\n"}
IsDigit(c) == c \in {"0","1","2","3","4","5","6","7","8","9"}

RECURSIVE LStrip(_)
LStrip(s) == IF s # <<>> /\ IsSpace(Head(s)) THEN LStrip(Tail(s)) ELSE s
RECURSIVE RStrip(_)
RStrip(s) ==
    IF s # <<>> /\ IsSpace(s[Len(s)]) THEN RStrip(SubSeq(s, 1, Len(s) - 1)) ELSE s
\* str.strip()
Strip(s) == RStrip(LStrip(s))

\* s[i:].startswith(w)
StartsAt(s, i, w) ==
    /\ i + Len(w) - 1 <= Len(s)
    /\ \A k \in 1..Len(w) : s[i + k - 1] = w[k]

\* the sentinel strings that stand for an absent value
S_unknown      == <<"u","n","k","n","o","w","n">>
S_not_provided == <<"n","o","t"," ","p","r","o","v","i","d","e","d">>

-----------------------------------------------------------------------------
(* calculate_quality_score (prepare_resume_dataset.py)                      *)

\* an experience depth that pays less for 7 to 10 years than for 5 to 7
ExperienceDepthDipping(years) ==
    IF years >= 100 THEN 30
    ELSE IF years >= 70 THEN 15
    ELSE IF years >= 50 THEN 20
    ELSE IF years >= 30 THEN 15
    ELSE IF years >= 10 THEN 10
    ELSE IF years > 0 THEN 5
    ELSE 0

\* Experience depth; experience_years is in tenths of a year
ExperienceDepth(years) ==
    IF years >= 100 THEN 30
    ELSE IF years >= 70 THEN 25
    ELSE IF years >= 50 THEN 20
    ELSE IF years >= 30 THEN 15
    ELSE IF years >= 10 THEN 10
    ELSE IF years > 0 THEN 5
    ELSE 0

SkillsRichness(skill_list) ==
    LET skill_count == Len(skill_list) IN
    IF skill_count >= 15 THEN 25
    ELSE IF skill_count >= 10 THEN 20
    ELSE IF skill_count >= 7 THEN 15
    ELSE IF skill_count >= 5 THEN 10
    ELSE IF skill_count >= 3 THEN 5
    ELSE 0

W_users    == <<"u","s","e","r","s">>
W_clients  == <<"c","l","i","e","n","t","s">>
W_projects == <<"p","r","o","j","e","c","t","s">>
W_years    == <<"y","e","a","r","s">>

\* the first index >= i of s that holds no whitespace (Len(s)+1 if none)
RECURSIVE SkipSpaces(_, _)
SkipSpaces(s, i) ==
    IF i <= Len(s) /\ IsSpace(s[i]) THEN SkipSpaces(s, i + 1) ELSE i

\* re.search(r'\d+%|\d+\+|\d+\s*(users|clients|projects|years)', s)
QuantifiableMatch(s) ==
    \E i \in 1..Len(s) :
        /\ IsDigit(s[i])
        /\ \/ (i < Len(s) /\ s[i + 1] \in {"%", "+"})
           \/ \E w \in {W_users, W_clients, W_projects, W_years} :
                  StartsAt(s, SkipSpaces(s, i + 1), w)

\* has_quantifiable: some responsibility of some experience matches
HasQuantifiable(r) ==
    \E e \in 1..Len(r.experience) :
        \E k \in 1..Len(r.experience[e].responsibilities) :
            QuantifiableMatch(Lower(r.experience[e].responsibilities[k]))

\* has_project_impact: some project has a non-sentinel impact
HasProjectImpact(r) ==
    \E p \in 1..Len(r.projects) :
        LET impact == r.projects[p].impact IN
        impact # <<>> /\ Lower(impact) \notin {S_unknown, S_not_provided, <<>>}

AchievementQuality(r) ==
    IF HasQuantifiable(r) /\ HasProjectImpact(r) THEN 25
    ELSE IF HasQuantifiable(r) \/ HasProjectImpact(r) THEN 15
    ELSE IF Len(r.experience) >= 2 THEN 10
    ELSE IF Len(r.experience) >= 1 THEN 5
    ELSE 0

\* education_priority.get(education_level.lower(), 0)
EducationPriority(level) ==
    LET k == Lower(level) IN
    IF k \in {<<"p","h","d">>, <<"p","h",".","d">>,
              <<"d","o","c","t","o","r","a","t","e">>} THEN 10
    ELSE IF k \in {<<"m","e">>, <<"m",".","e">>, <<"m","s">>, <<"m",".","s">>,
                   <<"m","a","s","t","e","r">>} THEN 8
    ELSE IF k \in {<<"b","e">>, <<"b",".","e">>, <<"b","s">>, <<"b",".","s">>,
                   <<"b","a","c","h","e","l","o","r">>} THEN 6
    ELSE IF k = <<"d","i","p","l","o","m","a">> THEN 3
    ELSE 0

\* certifications is a str or a list: [kind |-> "str" | "list", val |-> ...]
CertificationBonus(r) ==
    LET certs == r.certifications IN
    IF certs.kind = "str" /\ Strip(certs.val) # <<>>
           /\ Lower(certs.val) \notin {S_unknown, S_not_provided} THEN 2
    ELSE IF certs.kind = "list" /\ Len(certs.val) > 0 THEN Min(2, Len(certs.val))
    ELSE 0

StructureCompleteness(r) ==
    LET has_summary  == Strip(r.personal_info.summary) # <<>>
        has_contact  == Strip(r.personal_info.email) # <<>>
        has_projects == Len(r.projects) > 0
    IN  IF has_summary /\ has_contact /\ has_projects THEN 10
        ELSE IF (has_summary /\ has_contact) \/ (has_summary /\ has_projects) THEN 7
        ELSE IF has_summary \/ has_contact THEN 5
        ELSE 0

\* the value of the local `score` just before the return statement
RawScore(r, skill_list, years, level) ==
    ExperienceDepth(years) + SkillsRichness(skill_list) + AchievementQuality(r)
        + EducationPriority(level) + CertificationBonus(r)
        + StructureCompleteness(r)

ClampUnbounded(s) == s
\* min(100, max(0, score))
Clamp(s) == Min(100, Max(0, s))

calculate_quality_score(r, skill_list, years, level) ==
    Clamp(RawScore(r, skill_list, years, level))


-----------------------------------------------------------------------------
(* The calls of calculate_quality_score that the model explores             *)

MaxExperience == 2
MaxProjects == 1
MaxCerts == 3

T_Dev     == <<"D","e","v">>
T_Unknown == <<"U","n","k","n","o","w","n">>
T_Email   == <<"a","@","b">>
T_Led     == <<"L","e","d">>
T_Up40    == <<"U","p"," ","4","0","%">>
T_3Users  == <<"3"," ","U","s","e","r","s">>
T_AWS     == <<"A","W","S">>
T_PhD     == <<"P","h","D">>
T_MS      == <<"M",".","S">>
T_BE      == <<"B","E">>
T_Diploma == <<"D","i","p","l","o","m","a">>

\* all lists of at most n items of S
ListsUpTo(S, n) == UNION {[1..k -> S] : k \in 0..n}

Summaries == {<<" ">>, T_Dev}
Emails    == {<<>>, T_Email}
ExperienceEntries ==
    {[responsibilities |-> rs] : rs \in {<<T_Led>>, <<T_Up40, T_3Users>>}}
ProjectEntries == {[impact |-> i] : i \in {T_Unknown, T_Up40}}
Certifications ==
    {[kind |-> "str", val |-> v] : v \in {T_Unknown, T_AWS}}
        \cup {[kind |-> "list", val |-> ListOfLen(n)] : n \in 0..MaxCerts}

Resumes ==
    [personal_info : [summary : Summaries, email : Emails],
     experience : ListsUpTo(ExperienceEntries, MaxExperience),
     projects : ListsUpTo(ProjectEntries, MaxProjects),
     certifications : Certifications]

\* experience_years, in tenths of a year, on both sides of every threshold
ExperienceYearsArgs == {-10, 0, 5, 10, 30, 50, 70, 100}
\* len(skills), on both sides of every threshold
SkillCountArgs == {0, 3, 5, 7, 10, 15}
EducationLevelArgs == {T_PhD, T_MS, T_BE, T_Diploma, T_Unknown}

InitScore ==
    /\ resume \in Resumes
    /\ now = 0
    /\ experience_summary = <<>>
    /\ skills \in {ListOfLen(n) : n \in SkillCountArgs}
    /\ experience_years \in ExperienceYearsArgs
    /\ education_level \in EducationLevelArgs
    /\ score = None
    /\ qpc = "call"
    /\ ParseIdle /\ DatasetIdle /\ TrainIdle /\ VectorIdle /\ InferIdle /\ GenIdle /\ VoiceIdle

\* score = calculate_quality_score(resume, skills, experience_years, education_level)
CallQualityScore ==
    /\ qpc = "call"
    /\ score' = calculate_quality_score(resume, skills, experience_years,
                                        education_level)
    /\ qpc' = "done"
    /\ UNCHANGED <<resume, now, skills, experience_summary, experience_years,
                   education_level>>
    /\ UNCHANGED <<parseVars, datasetVars, trainVars, vectorVars, inferVars, genVars, voiceVars>>

NextScore == CallQualityScore

SpecScore == InitScore /\ [][NextScore]_vars

\* C1: for every resume record and every (skills, experience_years,
\* education_level) argument, calculate_quality_score returns an integer s
\* with 0 <= s <= 100.
C1_ScoreInRange ==
    qpc = "done" => score \in 0..100

\* the sub-scores of a returned call add up to more than 100: the clamp acted
C1_Witness ==
    /\ qpc = "done"
    /\ RawScore(resume, skills, experience_years, education_level) > 100
    /\ score = 100

-----------------------------------------------------------------------------
(* parse_resume and the ML parser (resume_parser.py)                        *)

\* len(text)
TextLen(t) == t.lead + t.body + t.trail
\* text.strip()
TextStrip(t) == [lead |-> 0, body |-> t.body, trail |-> 0]
\* text[:n]
TextPrefix(t, n) ==
    LET l == Min(t.lead, n)
        b == Min(t.body, n - l)
        r == Min(t.trail, n - l - b)
    IN  [lead |-> l, body |-> b, trail |-> r]

\* _load_ml_parser: (None, None) without torch, without models/.../model.pt,
\* or when loading the checkpoint raises; else parse_fn over the checkpoint
load_ml_parser(e) ==
    IF ~e.TORCH_AVAILABLE THEN NoParser
    ELSE IF e.model_pt = "missing" THEN NoParser
    ELSE IF e.model_pt = "corrupt" THEN NoParser
    ELSE [loaded |-> TRUE, num_skills |-> e.num_skills]

\* the indices whose sigmoid output exceeds 0.5 (probabilities in percent)
PredictedSkills(skills_probs) ==
    {i \in 1..Len(skills_probs) : skills_probs[i] > 50}

\* max(0, min(100, predicted_score))
ClampScore(x) == Max(0, Min(100, x))

RECURSIVE SumSeq(_)
SumSeq(q) == IF q = <<>> THEN 0 ELSE Head(q) + SumSeq(Tail(q))

\* a mis-stated skills confidence: the mean of max(p, 1-p), which is 0.5 for
\* an undecided output
SkillsConfidenceMaxProb(skills_probs) ==
    IF Len(skills_probs) = 0 THEN [kind |-> "nan", num |-> 0, den |-> 1]
    ELSE [kind |-> "num",
          num |-> SumSeq([i \in 1..Len(skills_probs) |->
                            Max(skills_probs[i], 100 - skills_probs[i])]),
          den |-> 100 * Len(skills_probs)]

\* torch.mean(torch.abs(skills_probs - 0.5) * 2): the mean of an empty tensor
\* is nan
SkillsConfidence(skills_probs) ==
    IF Len(skills_probs) = 0 THEN [kind |-> "nan", num |-> 0, den |-> 1]
    ELSE [kind |-> "num",
          num |-> SumSeq([i \in 1..Len(skills_probs) |->
                            Abs(skills_probs[i] - 50) * 2]),
          den |-> 100 * Len(skills_probs)]

\* 1.0 - min(1.0, abs(predicted_score - 50) / 50), as a fraction of 50
ScoreConfidence(predicted_score) ==
    [kind |-> "num", num |-> 50 - Min(50, Abs(predicted_score - 50)), den |-> 50]

\* skills_confidence * 0.6 + score_confidence * 0.4; nan propagates
OverallConfidence(sc, pc) ==
    IF sc.kind = "nan" THEN [kind |-> "nan", num |-> 0, den |-> 1]
    ELSE [kind |-> "num",
          num |-> 6 * sc.num * pc.den + 4 * pc.num * sc.den,
          den |-> 10 * sc.den * pc.den]

\* parse_fn(text) for the forward pass output `out`
parse_fn(text, out) ==
    LET predicted_score == ClampScore(out.score_pred) IN
    [skills     |-> PredictedSkills(out.skills_probs),
     score      |-> predicted_score,
     confidence |-> OverallConfidence(SkillsConfidence(out.skills_probs),
                                      ScoreConfidence(predicted_score))]

\* _parse_resume_ml: the parser's result in the shape of the AI output; the
\* experience and education fields (keyword matches on the text) are left out
parse_resume_ml(text, out) ==
    LET result == parse_fn(text, out) IN
    [kind           |-> "ml",
     skills         |-> result.skills,
     projects       |-> <<>>,
     certifications |-> <<>>,
     summary        |-> IF TextLen(text) > 500 THEN TextPrefix(text, 500) ELSE text,
     confidence     |-> result.confidence,
     roleAlignment  |-> FALSE]

\* confidence_fn(result)
confidence_fn(result) == result.confidence

AcceptsHalf(c) == c.kind = "num" /\ 10 * c.num >= 5 * c.den
\* confidence >= 0.7; a comparison with nan is False
Accepts(c) == c.kind = "num" /\ 10 * c.num >= 7 * c.den

\* _load_role_profile(jobTitle): {} without a title or without a profile file
load_role_profile(e, r) == r.jobTitle # None /\ e.role_profile

\* snippet = text_content[:4000]
Snippet(text) == TextPrefix(text, 4000)

ErrorResponse(msg) ==
    [success |-> FALSE, data |-> [kind |-> "None"], message |-> msg]

FallbackFailure(role_profile) ==
    ErrorResponse("AI resume analysis failed")
\* the except ai_error branch: canned data, with roleAlignment for a profile
FallbackSuccess(role_profile) ==
    [success |-> TRUE,
     data    |-> [kind |-> "dummy", roleAlignment |-> role_profile],
     message |-> "Resume parsed successfully (fallback mode)"]

\* What generate_content does: it raises, or returns a text in which
\* find('{') = start_idx (-1 if absent), rfind('}') = rclose (-1 if absent)
\* and whose slice [start_idx : rclose + 1] is valid JSON or not.
LLMReplies ==
    {[raises |-> TRUE,  start_idx |-> -1, rclose |-> -1, valid |-> FALSE],
     [raises |-> FALSE, start_idx |-> -1, rclose |-> -1, valid |-> FALSE],
     [raises |-> FALSE, start_idx |-> 0,  rclose |-> -1, valid |-> FALSE],
     [raises |-> FALSE, start_idx |-> 0,  rclose |-> 5,  valid |-> FALSE],
     [raises |-> FALSE, start_idx |-> 0,  rclose |-> 5,  valid |-> TRUE],
     [raises |-> FALSE, start_idx |-> 8,  rclose |-> 20, valid |-> TRUE]}

\* the try block around generate_content: "parsed", or the exception raised
DecodeReply(reply) ==
    LET start_idx == reply.start_idx
        end_idx   == reply.rclose + 1
    IN  IF reply.raises THEN "generate_content raised"
        ELSE IF start_idx # -1 /\ end_idx # -1
             THEN IF reply.valid THEN "parsed" ELSE "JSONDecodeError"
             ELSE "AI response format invalid"

MaxSkillOutputs == 2

\* sigmoid outputs in percent, and raw score predictions
SkillProbs == {0, 5, 45, 50, 95, 100}
ScorePreds == {-20, 0, 5, 45, 50, 75, 100, 130}
ModelOutputs(n) ==
    [skills_probs : [1..n -> SkillProbs], score_pred : ScorePreds]

Texts ==
    {[lead |-> 0, body |-> 0,    trail |-> 0],
     [lead |-> 5, body |-> 49,   trail |-> 6],
     [lead |-> 0, body |-> 50,   trail |-> 1],
     [lead |-> 0, body |-> 4000, trail |-> 0],
     [lead |-> 1, body |-> 4000, trail |-> 0]}

Envs ==
    {e \in [TORCH_AVAILABLE : BOOLEAN, api_key : BOOLEAN,
            model_pt : {"missing", "corrupt", "ok"},
            num_skills : 0..MaxSkillOutputs, role_profile : BOOLEAN] :
        e.model_pt # "ok" => e.num_skills = 0}

Requests == [readable : BOOLEAN, text : Texts, jobTitle : {None, "backend"}]

InitParse ==
    /\ env \in Envs
    /\ req \in Requests
    /\ ppc = "extract"
    /\ text_content = NoText /\ ml_parser = NoParser /\ model_out = NoModelOut
    /\ ml_result = NoResult /\ confidence = NoConfidence /\ ml_error = None
    /\ snippet = NoText /\ llm_called = FALSE /\ ai_error = None
    /\ response = NoResponse
    /\ ScoreIdle /\ DatasetIdle /\ TrainIdle /\ VectorIdle /\ InferIdle /\ GenIdle /\ VoiceIdle

\* text_content = await extract_text_from_file(file), and the length check
ExtractText ==
    /\ ppc = "extract"
    /\ IF ~req.readable
       THEN /\ response' = ErrorResponse("Failed to read file")
            /\ ppc' = "done"
            /\ UNCHANGED text_content
       ELSE /\ text_content' = req.text
            /\ IF TextLen(req.text) = 0 \/ TextLen(TextStrip(req.text)) < 50
               THEN /\ response' = ErrorResponse("Resume content too short or empty")
                    /\ ppc' = "done"
               ELSE /\ ppc' = "load_ml"
                    /\ UNCHANGED response
    /\ UNCHANGED <<env, req, ml_parser, model_out, ml_result, confidence,
                   ml_error, snippet, llm_called, ai_error>>
    /\ UNCHANGED <<scoreVars, datasetVars, trainVars, vectorVars, inferVars, genVars, voiceVars>>

\* ml_parser, confidence_fn = _load_ml_parser(); if ml_parser: ...
LoadMLParser ==
    /\ ppc = "load_ml"
    /\ ml_parser' = load_ml_parser(env)
    /\ ppc' = IF ml_parser'.loaded THEN "ml_parse" ELSE "fallback"
    /\ UNCHANGED <<env, req, text_content, model_out, ml_result, confidence,
                   ml_error, snippet, llm_called, ai_error, response>>
    /\ UNCHANGED <<scoreVars, datasetVars, trainVars, vectorVars, inferVars, genVars, voiceVars>>

\* the ML parse with its exception escaping the handler's inner try
MLParseUncaught ==
    /\ ppc = "ml_parse"
    /\ \/ /\ ml_error' = "ml parsing raised"
          /\ response' = ErrorResponse("ml parsing raised")
          /\ ppc' = "done"
          /\ UNCHANGED <<model_out, ml_result, confidence>>
       \/ \E out \in ModelOutputs(ml_parser.num_skills) :
             /\ model_out' = out
             /\ ml_result' = parse_resume_ml(text_content, out)
             /\ confidence' = confidence_fn(ml_result')
             /\ ppc' = "gate"
             /\ UNCHANGED <<ml_error, response>>
    /\ UNCHANGED <<env, req, text_content, ml_parser, snippet, llm_called, ai_error>>
    /\ UNCHANGED <<scoreVars, datasetVars, trainVars, vectorVars, inferVars, genVars, voiceVars>>

\* ml_result = _parse_resume_ml(...); confidence = confidence_fn(ml_result),
\* or the except branch: "ML parsing failed, falling back to AI"
MLParse ==
    /\ ppc = "ml_parse"
    /\ \/ /\ ml_error' = "ml parsing raised"
          /\ ppc' = "fallback"
          /\ UNCHANGED <<model_out, ml_result, confidence>>
       \/ \E out \in ModelOutputs(ml_parser.num_skills) :
             /\ model_out' = out
             /\ ml_result' = parse_resume_ml(text_content, out)
             /\ confidence' = confidence_fn(ml_result')
             /\ ppc' = "gate"
             /\ UNCHANGED ml_error
    /\ UNCHANGED <<env, req, text_content, ml_parser, snippet, llm_called,
                   ai_error, response>>
    /\ UNCHANGED <<scoreVars, datasetVars, trainVars, vectorVars, inferVars, genVars, voiceVars>>

\* if confidence >= 0.7: return the ML result, role-aligned when a profile
\* exists; else fall back to AI
ConfidenceGate ==
    /\ ppc = "gate"
    /\ IF Accepts(confidence)
       THEN /\ ml_result' = [ml_result EXCEPT
                                !.roleAlignment = load_role_profile(env, req)]
            /\ response' = [success |-> TRUE, data |-> ml_result',
                            message |-> "Resume parsed successfully using ML model"]
            /\ ppc' = "done"
       ELSE /\ ppc' = "fallback"
            /\ UNCHANGED <<ml_result, response>>
    /\ UNCHANGED <<env, req, text_content, ml_parser, model_out, confidence,
                   ml_error, snippet, llm_called, ai_error>>
    /\ UNCHANGED <<scoreVars, datasetVars, trainVars, vectorVars, inferVars, genVars, voiceVars>>

\* the AI path up to the prompt: role_profile, model, snippet
PrepareFallback ==
    /\ ppc = "fallback"
    /\ snippet' = Snippet(text_content)
    /\ ppc' = "llm"
    /\ UNCHANGED <<env, req, text_content, ml_parser, model_out, ml_result,
                   confidence, ml_error, llm_called, ai_error, response>>
    /\ UNCHANGED <<scoreVars, datasetVars, trainVars, vectorVars, inferVars, genVars, voiceVars>>

\* the try block around model.generate_content and its except branch
CallLLM ==
    /\ ppc = "llm"
    /\ IF ~env.api_key
       THEN /\ ai_error' = "No API key configured; using fallback"
            /\ response' = FallbackSuccess(load_role_profile(env, req))
            /\ UNCHANGED llm_called
       ELSE \E reply \in LLMReplies :
               /\ llm_called' = TRUE
               /\ IF DecodeReply(reply) = "parsed"
                  THEN /\ response' =
                            [success |-> TRUE, data |-> [kind |-> "ai"],
                             message |-> "Resume parsed successfully using AI analysis"]
                       /\ UNCHANGED ai_error
                  ELSE /\ ai_error' = DecodeReply(reply)
                       /\ response' = FallbackSuccess(load_role_profile(env, req))
    /\ ppc' = "done"
    /\ UNCHANGED <<env, req, text_content, ml_parser, model_out, ml_result,
                   confidence, ml_error, snippet>>
    /\ UNCHANGED <<scoreVars, datasetVars, trainVars, vectorVars, inferVars, genVars, voiceVars>>

NextParse ==
    \/ ExtractText
    \/ LoadMLParser
    \/ MLParse
    \/ ConfidenceGate
    \/ PrepareFallback
    \/ CallLLM

SpecParse == InitParse /\ [][NextParse]_vars

\* the request got past the length check: its text has >= 50 characters
LongEnough == TextLen(TextStrip(text_content)) >= 50

\* the handler went down the AI path with the first 4000 characters
EnteredFallback == snippet = TextPrefix(text_content, 4000)

\* C2 (as amended): for a resume text of at least 50 characters the response
\* is the ML model's output if and only if the ML parser loaded, ML parsing
\* raised no exception and the confidence is >= 0.7; in every other case the
\* handler goes on to the external generative-model path, with the first 4000
\* characters of the same text, and never returns the ML result.
C2_MLResponseIffAccepted ==
    (ppc = "done" /\ LongEnough) =>
        /\ (response.data.kind = "ml") <=>
               /\ ml_parser.loaded
               /\ ml_error = None
               /\ confidence.kind = "num"
               /\ 10 * confidence.num >= 7 * confidence.den
        /\ response.data.kind = "ml" =>
               response.success /\ response.data = ml_result /\ ~llm_called
        /\ response.data.kind # "ml" =>
               EnteredFallback /\ response.data.kind \in {"ai", "dummy"}

\* a sub-threshold ML result was discarded and the LLM answered for a text
\* longer than the prompt's 4000 characters
C2_Witness ==
    /\ ppc = "done"
    /\ ml_parser.loaded /\ ml_error = None /\ confidence.kind = "num"
    /\ 10 * confidence.num < 7 * confidence.den
    /\ TextLen(text_content) > 4000
    /\ EnteredFallback
    /\ response.data.kind = "ai"

\* C2 as stated: the fallback path is given the same text
C2_Original ==
    (ppc = "done" /\ LongEnough) =>
        /\ (response.data.kind = "ml") <=>
               /\ ml_parser.loaded
               /\ ml_error = None
               /\ confidence.kind = "num"
               /\ 10 * confidence.num >= 7 * confidence.den
        /\ response.data.kind # "ml" => snippet = text_content

\* C3: when no model is available (torch not importable, model.pt missing,
\* loading the checkpoint raises) or the ML parse raises, parse_resume goes
\* down the external-LLM fallback path as for a sub-threshold confidence, and
\* the model failure never produces a success=false response.
C3_ModelFailureFallsBack ==
    (ppc = "done" /\ LongEnough /\ (~ml_parser.loaded \/ ml_error # None)) =>
        /\ EnteredFallback
        /\ response.success
        /\ response.data.kind \in {"ai", "dummy"}
        /\ ml_result = NoResult

\* a checkpoint that fails to load, and the LLM's answer returned
C3_Witness ==
    /\ ppc = "done"
    /\ env.TORCH_AVAILABLE /\ env.model_pt = "corrupt" /\ ~ml_parser.loaded
    /\ llm_called
    /\ response.success /\ response.data.kind = "ai"

\* C4 (as amended): when the external LLM fallback fails in parse_resume (no
\* API key, generate_content raises, or no parseable JSON object in the
\* reply), the failure is caught in the handler: the response is success=true
\* with the canned placeholder data and the message "Resume parsed
\* successfully (fallback mode)", never success=false.
C4_FallbackFailureIsCannedSuccess ==
    (ppc = "done" /\ ai_error # None) =>
        /\ response.success
        /\ response.data.kind = "dummy"
        /\ response.message = "Resume parsed successfully (fallback mode)"

\* the LLM was called and its reply had braces but no valid JSON
C4_Witness ==
    /\ ppc = "done"
    /\ llm_called
    /\ ai_error = "JSONDecodeError"
    /\ response.data.kind = "dummy"

\* C4 as stated: a failed fallback gives success=false
C4_Original ==
    (ppc = "done" /\ ai_error # None) => ~response.success

\* how far from 0, 1 or 0.5 (in percent) an output may lie and count as near
Near == 10

AllNear(skills_probs, targets) ==
    /\ Len(skills_probs) >= 1
    /\ \A i \in 1..Len(skills_probs) :
           \E t \in targets : Abs(skills_probs[i] - t) <= Near

ParsedByML == ml_parser.loaded /\ ml_error = None /\ ml_result.kind = "ml"

\* C5: for a model output whose skill probabilities are all near 0 or 1 and
\* whose predicted score is near 0 or near 100, the confidence is at least
\* 0.7 and parse_resume accepts the model output.
C5_ExtremeOutputAccepted ==
    (/\ ppc = "done"
     /\ ParsedByML
     /\ AllNear(model_out.skills_probs, {0, 100})
     /\ \E t \in {0, 100} : Abs(ClampScore(model_out.score_pred) - t) <= Near)
        => /\ 10 * confidence.num >= 7 * confidence.den
           /\ response.data.kind = "ml"

\* C6: for a model output whose skill probabilities (at least one) are all
\* near 0.5 and whose predicted score is near 50, the confidence is below 0.7
\* and parse_resume falls back to the external LLM.
C6_UndecidedOutputFallsBack ==
    (/\ ParsedByML
     /\ AllNear(model_out.skills_probs, {50})
     /\ Abs(ClampScore(model_out.score_pred) - 50) <= Near)
        => /\ confidence.kind = "num"
           /\ 10 * confidence.num < 7 * confidence.den
           /\ ppc = "done" =>
                  EnteredFallback /\ response.data.kind \in {"ai", "dummy"}

\* an undecided output went through the gate and the request was answered
\* by the fallback path
C6_Witness ==
    /\ ppc = "done"
    /\ ParsedByML
    /\ AllNear(model_out.skills_probs, {50})
    /\ Abs(ClampScore(model_out.score_pred) - 50) <= Near
    /\ EnteredFallback
    /\ response.data.kind \in {"ai", "dummy"}

-----------------------------------------------------------------------------
(* prepare_resume_dataset.main: read, filter, split, write                  *)

MaxLines == 4

\* An input line is blank, is not JSON, or is a JSON value.  Of a JSON value
\* the builder sees whether transform_resume raises on it (`typed`: "ok", or
\* "bad_field" for a field of a type the extractors cannot handle, such as a
\* numeric duration, or "not_object" for a value that is no JSON object) and
\* the text flatten_resume_to_text gives for it.
Lines ==
    {[kind |-> "blank",     typed |-> "ok", flat |-> NoText],
     [kind |-> "malformed", typed |-> "ok", flat |-> NoText],
     [kind |-> "json", typed |-> "not_object", flat |-> NoText],
     [kind |-> "json", typed |-> "bad_field",
      flat |-> [lead |-> 0, body |-> 69, trail |-> 0]],
     [kind |-> "json", typed |-> "ok",
      flat |-> [lead |-> 3, body |-> 45, trail |-> 6]],
     [kind |-> "json", typed |-> "ok",
      flat |-> [lead |-> 0, body |-> 50, trail |-> 0]],
     [kind |-> "json", typed |-> "ok",
      flat |-> [lead |-> 1, body |-> 60, trail |-> 0]]}

\* --val_split, in percent
ValSplits == {0, 20, 50}

\* transform_resume(resume): the training example (its text; the other fields
\* are functions of the same record)
transform_resume(line) == [text |-> line.flat]

\* json.loads(line) raises JSONDecodeError, or transform_resume raises
LineRaises(line) == line.kind = "malformed" \/ line.typed # "ok"

LongEnoughRaw(transformed) == TextLen(transformed.text) >= 50
\* not (len(transformed["text"].strip()) < 50)
LongEnoughText(transformed) == TextLen(TextStrip(transformed.text)) >= 50

\* one iteration of the reading loop: the examples after the line
AfterLine(exs, line) ==
    IF line.kind = "blank" THEN exs
    ELSE IF LineRaises(line) THEN exs
    ELSE IF ~LongEnoughText(transform_resume(line)) THEN exs
    ELSE Append(exs, transform_resume(line))

SplitIndexRounded(n, v) == (n * (100 - v) + 50) \div 100
\* int(len(examples) * (1 - args.val_split))
SplitIndex(n, v) == (n * (100 - v)) \div 100

\* examples[:split_idx]
TrainSlice(exs, idx) == Prefix(exs, idx)
ValSliceOffByOne(exs, idx) == Suffix(exs, idx + 1)
\* examples[split_idx:]
ValSlice(exs, idx) == Suffix(exs, idx)

\* json.dumps(ex, ensure_ascii=False) + "\n" for each example
JsonRows(exs) == [i \in 1..Len(exs) |-> [jsonl |-> exs[i]]]

InitDataset ==
    /\ input_exists \in BOOLEAN
    /\ lines \in IF input_exists THEN ListsUpTo(Lines, MaxLines) ELSE {<<>>}
    /\ val_split \in ValSplits
    /\ line_num = 0 /\ examples = <<>> /\ split_idx = 0
    /\ train_examples = <<>> /\ val_examples = <<>>
    /\ train_file = NoFile /\ val_file = NoFile
    /\ dpc = "start"
    /\ ScoreIdle /\ ParseIdle /\ TrainIdle /\ VectorIdle /\ InferIdle /\ GenIdle /\ VoiceIdle

\* if not os.path.exists(args.input): return
OpenInput ==
    /\ dpc = "start"
    /\ dpc' = IF input_exists THEN "read" ELSE "done"
    /\ UNCHANGED <<input_exists, lines, val_split, line_num, examples, split_idx,
                   train_examples, val_examples, train_file, val_file>>
    /\ UNCHANGED <<scoreVars, parseVars, trainVars, vectorVars, inferVars, genVars, voiceVars>>

\* for line_num, line in enumerate(f, 1): ...
ReadLine ==
    /\ dpc = "read"
    /\ line_num < Len(lines)
    /\ line_num' = line_num + 1
    /\ examples' = AfterLine(examples, lines[line_num + 1])
    /\ UNCHANGED <<input_exists, lines, val_split, split_idx, train_examples,
                   val_examples, train_file, val_file, dpc>>
    /\ UNCHANGED <<scoreVars, parseVars, trainVars, vectorVars, inferVars, genVars, voiceVars>>

\* the end of the file, then the split
SplitExamples ==
    /\ dpc = "read"
    /\ line_num = Len(lines)
    /\ split_idx' = SplitIndex(Len(examples), val_split)
    /\ train_examples' = TrainSlice(examples, split_idx')
    /\ val_examples' = ValSlice(examples, split_idx')
    /\ dpc' = "write_train"
    /\ UNCHANGED <<input_exists, lines, val_split, line_num, examples,
                   train_file, val_file>>
    /\ UNCHANGED <<scoreVars, parseVars, trainVars, vectorVars, inferVars, genVars, voiceVars>>

WriteTrain ==
    /\ dpc = "write_train"
    /\ train_file' = [written |-> TRUE, rows |-> JsonRows(train_examples)]
    /\ dpc' = "write_val"
    /\ UNCHANGED <<input_exists, lines, val_split, line_num, examples, split_idx,
                   train_examples, val_examples, val_file>>
    /\ UNCHANGED <<scoreVars, parseVars, trainVars, vectorVars, inferVars, genVars, voiceVars>>

WriteVal ==
    /\ dpc = "write_val"
    /\ val_file' = [written |-> TRUE, rows |-> JsonRows(val_examples)]
    /\ dpc' = "stats"
    /\ UNCHANGED <<input_exists, lines, val_split, line_num, examples, split_idx,
                   train_examples, val_examples, train_file>>
    /\ UNCHANGED <<scoreVars, parseVars, trainVars, vectorVars, inferVars, genVars, voiceVars>>

\* the statistics: sum(scores) / len(scores) raises ZeroDivisionError when no
\* example survived
PrintStatistics ==
    /\ dpc = "stats"
    /\ dpc' = IF Len(examples) = 0 THEN "ZeroDivisionError" ELSE "done"
    /\ UNCHANGED <<input_exists, lines, val_split, line_num, examples, split_idx,
                   train_examples, val_examples, train_file, val_file>>
    /\ UNCHANGED <<scoreVars, parseVars, trainVars, vectorVars, inferVars, genVars, voiceVars>>

NextDataset ==
    \/ OpenInput
    \/ ReadLine
    \/ SplitExamples
    \/ WriteTrain
    \/ WriteVal
    \/ PrintStatistics

SpecDataset == InitDataset /\ [][NextDataset]_vars

\* the split has been made
AfterSplit == dpc \in {"write_train", "write_val", "stats", "done", "ZeroDivisionError"}
               /\ input_exists
\* both shard files have been written
ShardsWritten == dpc \in {"stats", "done", "ZeroDivisionError"} /\ input_exists

C8_ShardsPartitionExamples ==
    /\ AfterSplit => train_examples \o val_examples = examples
    /\ ShardsWritten => train_file.rows \o val_file.rows = JsonRows(examples)

\* both shards are non-empty and hold different examples
C8_Witness ==
    /\ ShardsWritten
    /\ Len(train_file.rows) >= 1
    /\ Len(val_file.rows) >= 1
    /\ train_file.rows[1] # val_file.rows[1]

\* the lines a claim expects to survive, mapped to their examples
ExamplesOf(ls, Keep(_)) ==
    LET kept == SelectSeq(ls, Keep)
    IN  [i \in 1..Len(kept) |-> transform_resume(kept[i])]

WellFormedAndLong(line) ==
    /\ line.kind = "json"
    /\ line.typed # "not_object"
    /\ TextLen(TextStrip(line.flat)) >= 50

TransformsAndLong(line) ==
    /\ line.kind = "json"
    /\ line.typed = "ok"
    /\ TextLen(TextStrip(line.flat)) >= 50

\* C9 (as amended): the list of surviving examples equals, in source order,
\* the transforms of exactly those non-blank lines that are well-formed JSON,
\* on which transform_resume raises no exception, and whose flattened text has
\* at least 50 characters after stripping; a malformed line, or a line whose
\* transform raises, is skipped and never aborts or changes the processing of
\* the other lines.
C9_SurvivorsAreTheGoodLines ==
    dpc # "idle" /\ dpc # "start" =>
        examples = ExamplesOf(SubSeq(lines, 1, line_num), TransformsAndLong)

\* all lines read: a malformed line and a line whose transform raises stand
\* between two surviving lines
C9_Witness ==
    /\ AfterSplit
    /\ Len(lines) = 4
    /\ lines[2].kind = "malformed"
    /\ lines[3].typed = "bad_field"
    /\ Len(examples) = 2
    /\ examples[1] # examples[2]

\* C9 as stated: every well-formed JSON line with a flattened text of at least
\* 50 characters survives
C9_Original ==
    dpc # "idle" /\ dpc # "start" =>
        examples = ExamplesOf(SubSeq(lines, 1, line_num), WellFormedAndLong)

-----------------------------------------------------------------------------
(* train_resume_parser (fine_tuning/train_lora.py)                          *)

\* for epoch in range(10)
NumEpochs == 10
\* the average validation losses of an epoch are 1..MaxLoss
MaxLoss == 2
LossValues == 1..MaxLoss

\* the numbers of examples of a shard: none, some
ShardSizes == {0, 3}
\* the vocabularies built from the training shard, as the lists of their
\* entries in index order
Vocabularies == {<<"python">>, <<"python", "sql">>}
SkillVocabularies == {<<>>, <<"python">>}

ImprovesOrEqual(loss, best) == best.inf \/ loss <= best.v
\* avg_val_loss < best_val_loss
Improves(loss, best) == best.inf \/ loss < best.v

\* the dict given to torch.save
Checkpoint(params, voc, skill_voc, ep, loss) ==
    [exists      |-> TRUE,
     state_dict  |-> params,
     vocab       |-> voc,
     skill_vocab |-> skill_voc,
     num_skills  |-> Len(skill_voc),
     input_dim   |-> Len(voc),
     epoch       |-> ep,
     val_loss    |-> loss]

InitTrain ==
    /\ train_ds \in ShardSizes
    /\ val_ds \in ShardSizes
    /\ vocab \in Vocabularies
    /\ skill_vocab \in SkillVocabularies
    /\ state_dict = 0
    /\ epoch = 0
    /\ best_val_loss = Infinity
    /\ avg_val_loss = 0
    /\ val_losses = <<>>
    /\ model_pt = NoCheckpoint
    /\ saves = {}
    /\ tpc = "epoch"
    /\ max_tokens = 5000
    /\ min_count = 2
    /\ ScoreIdle /\ ParseIdle /\ DatasetIdle /\ VectorIdle /\ InferIdle /\ GenIdle /\ VoiceIdle

\* One pass of the epoch loop up to the averages: the training batches, the
\* validation batches, then total / len(loader), a division by zero when a
\* loader has no batch.  state_dict counts the epochs the parameters have
\* been trained for.
RunEpoch ==
    /\ tpc = "epoch"
    /\ epoch < NumEpochs
    /\ epoch' = epoch + 1
    /\ IF train_ds = 0 \/ val_ds = 0
       THEN /\ tpc' = "ZeroDivisionError"
            /\ UNCHANGED <<state_dict, avg_val_loss, val_losses>>
       ELSE /\ state_dict' = epoch + 1
            /\ \E loss \in LossValues :
                  /\ avg_val_loss' = loss
                  /\ val_losses' = Append(val_losses, loss)
            /\ tpc' = "save"
    /\ UNCHANGED <<train_ds, val_ds, vocab, skill_vocab, best_val_loss, model_pt,
                   saves, max_tokens, min_count>>
    /\ UNCHANGED <<scoreVars, parseVars, datasetVars, vectorVars, inferVars, genVars, voiceVars>>

\* if avg_val_loss < best_val_loss: ... torch.save(...)
SaveBestModel ==
    /\ tpc = "save"
    /\ IF Improves(avg_val_loss, best_val_loss)
       THEN /\ best_val_loss' = [inf |-> FALSE, v |-> avg_val_loss]
            /\ model_pt' = Checkpoint(state_dict, vocab, skill_vocab, epoch,
                                      avg_val_loss)
            /\ saves' = saves \cup {epoch}
       ELSE UNCHANGED <<best_val_loss, model_pt, saves>>
    /\ tpc' = IF epoch = NumEpochs THEN "done" ELSE "epoch"
    /\ UNCHANGED <<train_ds, val_ds, vocab, skill_vocab, state_dict, epoch,
                   avg_val_loss, val_losses, max_tokens, min_count>>
    /\ UNCHANGED <<scoreVars, parseVars, datasetVars, vectorVars, inferVars, genVars, voiceVars>>

NextTrain ==
    \/ RunEpoch
    \/ SaveBestModel

SpecTrain == InitTrain /\ [][NextTrain]_vars

\* epoch e's validation loss is strictly lower than that of every earlier epoch
BeatsEarlier(e) == \A j \in 1..(e - 1) : val_losses[e] < val_losses[j]

\* the earliest epoch that attains the minimum validation loss so far
EarliestBest ==
    CHOOSE e \in 1..Len(val_losses) :
        /\ \A j \in 1..Len(val_losses) : val_losses[e] <= val_losses[j]
        /\ \A j \in 1..(e - 1) : val_losses[j] > val_losses[e]

-----------------------------------------------------------------------------
(* simple_vectorize (train_lora.py) and vectorize_text (resume_parser.py)   *)

\* the length of the first run of non-whitespace characters of s
RECURSIVE TokenLen(_)
TokenLen(s) ==
    IF s = <<>> \/ IsSpace(Head(s)) THEN 0 ELSE 1 + TokenLen(Tail(s))

\* str.split(): the maximal runs of non-whitespace characters, in order
RECURSIVE Split(_)
Split(s) ==
    LET t == LStrip(s) IN
    IF t = <<>> THEN <<>>
    ELSE <<SubSeq(t, 1, TokenLen(t))>> \o Split(Suffix(t, TokenLen(t)))

\* A vocabulary dict built by enumerate() is the list of its keys in index
\* order: voc[i + 1] is the token whose value is i.
InVocab(token, voc) == \E i \in 1..Len(voc) : voc[i] = token
\* vocab[token], as a position of the list
VocabIndex(token, voc) == CHOOSE i \in 1..Len(voc) : voc[i] = token

\* torch.zeros(len(vocab))
Zeros(n) == [i \in 1..n |-> 0]

\* for token in tokens: if token in vocab: vec[vocab[token]] += 1.0
RECURSIVE AddTokens(_, _, _)
AddTokens(vec, tokens, voc) ==
    IF tokens = <<>> THEN vec
    ELSE LET token == Head(tokens) IN
         AddTokens(IF InVocab(token, voc)
                   THEN [vec EXCEPT ![VocabIndex(token, voc)] = @ + 1]
                   ELSE vec,
                   Tail(tokens), voc)

\* train_lora.simple_vectorize(text, vocab)
simple_vectorize(txt, voc) == AddTokens(Zeros(Len(voc)), Split(Lower(txt)), voc)

\* a vectorizer that does not lower-case the text
VectorizeTextCased(txt, voc) == AddTokens(Zeros(Len(voc)), Split(txt), voc)
\* resume_parser._load_ml_parser.vectorize_text(text), vocab from the checkpoint
vectorize_text(txt, voc) == AddTokens(Zeros(Len(voc)), Split(Lower(txt)), voc)

MaxTextLen == 5
TextChars == {"a", "B", " ", "\n"}
VectorTexts == UNION {[1..n -> TextChars] : n \in 0..MaxTextLen}
\* vocabularies as build_vocab makes them: distinct lower-cased tokens
CheckpointVocabs ==
    {<<>>, <<<<"a">>>>, <<<<"b">>, <<"a">>>>, <<<<"a", "b">>, <<"b">>>>}

InitVectorize ==
    /\ input_text \in VectorTexts
    /\ checkpoint_vocab \in CheckpointVocabs
    /\ train_vec = <<>>
    /\ infer_vec = <<>>
    /\ vpc = "train"
    /\ ScoreIdle /\ ParseIdle /\ DatasetIdle /\ TrainIdle /\ InferIdle /\ GenIdle /\ VoiceIdle

\* collate, at training time: simple_vectorize(it.get("text") or "", vocab)
SimpleVectorize ==
    /\ vpc = "train"
    /\ train_vec' = simple_vectorize(input_text, checkpoint_vocab)
    /\ vpc' = "infer"
    /\ UNCHANGED <<input_text, checkpoint_vocab, infer_vec>>
    /\ UNCHANGED <<scoreVars, parseVars, datasetVars, trainVars, inferVars, genVars, voiceVars>>

\* parse_fn, at inference time: vectorize_text(text)
VectorizeText ==
    /\ vpc = "infer"
    /\ infer_vec' = vectorize_text(input_text, checkpoint_vocab)
    /\ vpc' = "done"
    /\ UNCHANGED <<input_text, checkpoint_vocab, train_vec>>
    /\ UNCHANGED <<scoreVars, parseVars, datasetVars, trainVars, inferVars, genVars, voiceVars>>

NextVectorize == SimpleVectorize \/ VectorizeText

SpecVectorize == InitVectorize /\ [][NextVectorize]_vars

\* the number of lower-cased whitespace tokens of the text equal to `entry`
TokenCount(txt, entry) ==
    LET tokens == Split(Lower(txt)) IN
    Cardinality({k \in 1..Len(tokens) : tokens[k] = entry})

\* C11: for every text and every checkpoint vocabulary, vectorize_text gives
\* the same vector as simple_vectorize: its length is |vocab| and component i
\* is the number of lower-cased whitespace tokens of the text equal to
\* vocabulary entry i; tokens outside the vocabulary count nowhere.
C11_VectorizeParity ==
    vpc = "done" =>
        /\ infer_vec = train_vec
        /\ Len(infer_vec) = Len(checkpoint_vocab)
        /\ \A i \in 1..Len(checkpoint_vocab) :
               infer_vec[i] = TokenCount(input_text, checkpoint_vocab[i])

\* a text with the same upper-case token twice, which is in the vocabulary in
\* lower case, and a
\* token outside the vocabulary
C11_Witness ==
    /\ vpc = "done"
    /\ checkpoint_vocab = <<<<"a", "b">>, <<"b">>>>
    /\ input_text = <<"B", "\n", "B", " ", "a">>
    /\ infer_vec = <<0, 2>>

-----------------------------------------------------------------------------
(* calculate_experience_years (prepare_resume_dataset.py)                   *)

\* A JSON field value: a str (its characters in s) or a non-zero number.
\* A key that is absent reads as "" through dict.get(key, "").
Str(chars) == [type |-> "str", s |-> chars]
Num == [type |-> "int", s |-> <<>>]
\* the truth value Python gives to v in `if v`
Truthy(v) == v.type = "int" \/ v.s # <<>>

Digits == <<"0", "1", "2", "3", "4", "5", "6", "7", "8", "9">>
DigitVal(c) == (CHOOSE n \in 1..10 : Digits[n] = c) - 1

\* int() / float() of a string of digits
RECURSIVE ParseInt(_)
ParseInt(s) ==
    IF s = <<>> THEN 0
    ELSE 10 * ParseInt(SubSeq(s, 1, Len(s) - 1)) + DigitVal(s[Len(s)])

\* the first index >= i of s that holds no digit (Len(s)+1 if none)
RECURSIVE DigitsEnd(_, _)
DigitsEnd(s, i) ==
    IF i <= Len(s) /\ IsDigit(s[i]) THEN DigitsEnd(s, i + 1) ELSE i

\* the start indices of the matches of (\d+)\s*w in s
NumberBeforeAt(s, w) ==
    {i \in 1..Len(s) :
        IsDigit(s[i]) /\ StartsAt(s, SkipSpaces(s, DigitsEnd(s, i)), w)}

\* re.search(r'(\d+)\s*w', s): whether it matches, and float(group(1)) of the
\* leftmost match
NumberBefore(s, w) ==
    LET at == NumberBeforeAt(s, w) IN
    IF at = {} THEN [found |-> FALSE, n |-> 0]
    ELSE LET i == CHOOSE j \in at : \A k \in at : j <= k
         IN  [found |-> TRUE, n |-> ParseInt(SubSeq(s, i, DigitsEnd(s, i) - 1))]

W_year  == <<"y", "e", "a", "r">>
W_month == <<"m", "o", "n", "t", "h">>
S_present == <<"p", "r", "e", "s", "e", "n", "t">>
S_current == <<"c", "u", "r", "r", "e", "n", "t">>

\* A total of years is kept exactly, in units of 1/YearUnit of a year:
\* a month is 1/12 year and a day is 1/365.25 = 4/1461 year, 12 * 1461 = 17532.
YearUnit == 17532
MonthUnits == 1461
DayUnits == 48

\* the years added for a duration string d (already lower-cased)
DurationYearsOnly(d) == NumberBefore(d, W_year).n * YearUnit
\* float(year_match.group(1)) + float(month_match.group(1)) / 12.0
DurationYears(d) ==
    NumberBefore(d, W_year).n * YearUnit + NumberBefore(d, W_month).n * MonthUnits

IsLeap(y) == (y % 4 = 0 /\ y % 100 # 0) \/ y % 400 = 0
DaysBeforeMonth == <<0, 31, 59, 90, 120, 151, 181, 212, 243, 273, 304, 334>>
\* date(y, m, d).toordinal()
Ordinal(y, m, d) ==
    365 * (y - 1) + ((y - 1) \div 4) - ((y - 1) \div 100) + ((y - 1) \div 400)
        + DaysBeforeMonth[m] + (IF m > 2 /\ IsLeap(y) THEN 1 ELSE 0) + d

\* datetime.strptime(s, "%Y-%m"): four digits, '-', a month 1..12 in one or
\* two digits; anything else is a ValueError (ok = FALSE)
Strptime(s) ==
    IF /\ Len(s) \in {6, 7}
       /\ \A i \in 1..4 : IsDigit(s[i])
       /\ s[5] = "-"
       /\ \A i \in 6..Len(s) : IsDigit(s[i])
       /\ ParseInt(SubSeq(s, 6, Len(s))) \in 1..12
       /\ ParseInt(SubSeq(s, 1, 4)) >= 1
    THEN [ok |-> TRUE,
          day |-> Ordinal(ParseInt(SubSeq(s, 1, 4)), ParseInt(SubSeq(s, 6, Len(s))), 1)]
    ELSE [ok |-> FALSE, day |-> 0]

\* the outcome of one pass of the loop body: an uncaught exception, or the
\* units added to total_years
Raised == [raises |-> TRUE, units |-> 0]
Adds(u) == [raises |-> FALSE, units |-> u]

\* the elif branch: start / end dates.  `today` is datetime.now() as a day
\* ordinal; start_date is a midnight, so delta.days is the difference of the
\* ordinals.
DatesContribution(dates, today) ==
    LET start == dates.start
        end   == dates.end
    IN  IF ~(Truthy(start) /\ Truthy(end)) THEN Adds(0)
        ELSE IF start.type # "str" THEN Raised
        ELSE IF Lower(start.s) \in {S_unknown, S_not_provided} THEN Adds(0)
        ELSE LET start_date == Strptime(Prefix(start.s, 7)) IN
             IF ~start_date.ok THEN Adds(0)
             ELSE IF end.type # "str" THEN Raised
             ELSE IF Lower(end.s) \in {S_present, S_current, <<>>}
                  THEN Adds((today - start_date.day) * DayUnits)
             ELSE LET end_date == Strptime(Prefix(end.s, 7)) IN
                  IF ~end_date.ok THEN Adds(0)
                  ELSE Adds((end_date.day - start_date.day) * DayUnits)

\* a loop body that parses the duration but leaves the months out
ContributionYearsOnly(dates, today) ==
    LET duration == dates.duration IN
    IF Truthy(duration) /\ duration.type # "str" THEN Raised
    ELSE IF Truthy(duration)
             /\ Lower(duration.s) \notin {S_unknown, S_not_provided, S_present}
         THEN Adds(DurationYearsOnly(Lower(duration.s)))
    ELSE DatesContribution(dates, today)

\* the loop body for one experience entry; .lower() of a number raises
\* AttributeError, which nothing in the function catches
Contribution(dates, today) ==
    LET duration == dates.duration IN
    IF Truthy(duration) /\ duration.type # "str" THEN Raised
    ELSE IF Truthy(duration)
             /\ Lower(duration.s) \notin {S_unknown, S_not_provided, S_present}
         THEN Adds(DurationYears(Lower(duration.s)))
    ELSE DatesContribution(dates, today)

\* the loop over resume["experience"]: it ends at the first exception
RECURSIVE TotalYears(_, _)
TotalYears(experiences, today) ==
    IF experiences = <<>> THEN Adds(0)
    ELSE LET first == Contribution(Head(experiences).dates, today) IN
         IF first.raises THEN Raised
         ELSE LET rest == TotalYears(Tail(experiences), today) IN
              IF rest.raises THEN Raised ELSE Adds(first.units + rest.units)

\* round(num / den), ties to the even neighbour
RoundHalfEven(num, den) ==
    LET q == num \div den
        r == num - q * den
    IN  IF 2 * r < den THEN q
        ELSE IF 2 * r > den THEN q + 1
        ELSE IF q % 2 = 0 THEN q ELSE q + 1

\* round(total_years, 1), in tenths of a year
RoundTenths(units) == RoundHalfEven(10 * units, YearUnit)

MaxDatedEntries == 2

D_1Year6Months ==
    <<"1", " ", "y", "e", "a", "r", " ", "6", " ", "m", "o", "n", "t", "h", "s">>
D_3Months    == <<"3", " ", "M", "o", "n", "t", "h", "s">>
D_Soon       == <<"s", "o", "o", "n">>
T_Present    == <<"P", "r", "e", "s", "e", "n", "t">>
T_2018_01    == <<"2", "0", "1", "8", "-", "0", "1">>
T_2018_01_15 == <<"2", "0", "1", "8", "-", "0", "1", "-", "1", "5">>
T_2020_01    == <<"2", "0", "2", "0", "-", "0", "1">>
T_Jan18      == <<"J", "a", "n", " ", "1", "8">>
T_NA         == <<"n", "/", "a">>

Dates(duration, start, end) ==
    [dates |-> [duration |-> duration, start |-> start, end |-> end]]

\* experience entries by their dates: a duration with and without dates, dates
\* in both orders, open ends, unparseable strings, numbers
DatedEntries ==
    {Dates(Str(D_1Year6Months), Str(T_2018_01), Str(T_2020_01)),
     Dates(Str(D_3Months), Str(<<>>), Str(<<>>)),
     Dates(Str(<<>>), Str(T_2018_01_15), Str(T_2020_01)),
     Dates(Str(<<>>), Str(T_2020_01), Str(T_2018_01)),
     Dates(Str(T_Unknown), Str(T_2018_01), Str(T_Present)),
     Dates(Str(<<>>), Str(T_2018_01), Str(<<>>)),
     Dates(Str(<<>>), Str(T_2018_01), Str(S_current)),
     Dates(Str(D_Soon), Str(T_2018_01), Str(T_2020_01)),
     Dates(Str(<<>>), Str(T_Jan18), Str(T_2020_01)),
     Dates(Str(<<>>), Str(T_2018_01), Str(T_NA)),
     Dates(Num, Str(<<>>), Str(<<>>)),
     Dates(Str(<<>>), Str(T_2018_01), Num),
     Dates(Str(<<>>), Num, Str(T_2020_01))}

\* datetime.now(), as the ordinal of its date: after and before the starts
Nows == {Ordinal(2026, 11, 1), Ordinal(2017, 3, 15)}

InitYears ==
    /\ resume \in [experience : ListsUpTo(DatedEntries, MaxDatedEntries)]
    /\ now \in Nows
    /\ skills = <<>>
    /\ experience_summary = <<>>
    /\ education_level = <<>>
    /\ experience_years = 0
    /\ score = None
    /\ qpc = "call"
    /\ ParseIdle /\ DatasetIdle /\ TrainIdle /\ VectorIdle /\ InferIdle /\ GenIdle /\ VoiceIdle

\* experience_years = calculate_experience_years(resume)
CalculateExperienceYears ==
    /\ qpc = "call"
    /\ LET total_years == TotalYears(resume.experience, now) IN
       IF total_years.raises
       THEN /\ qpc' = "AttributeError"
            /\ UNCHANGED experience_years
       ELSE /\ experience_years' = RoundTenths(total_years.units)
            /\ qpc' = "done"
    /\ UNCHANGED <<resume, now, skills, experience_summary, education_level, score>>
    /\ UNCHANGED <<parseVars, datasetVars, trainVars, vectorVars, inferVars, genVars, voiceVars>>

NextYears == CalculateExperienceYears

SpecYears == InitYears /\ [][NextYears]_vars

\* an entry whose duration is a string that the code parses: non-empty and
\* none of 'unknown', 'not provided', 'present' in any letter case
HasUsableDuration(e) ==
    /\ e.dates.duration.type = "str"
    /\ e.dates.duration.s # <<>>
    /\ Lower(e.dates.duration.s) \notin {S_unknown, S_not_provided, S_present}
\* an entry whose duration is the empty string or one of those sentinels
HasNoUsableDuration(e) ==
    /\ e.dates.duration.type = "str"
    /\ ~HasUsableDuration(e)
\* an entry with a parseable 'YYYY-MM' start
HasParseableStart(e) ==
    /\ e.dates.start.type = "str"
    /\ Strptime(Prefix(e.dates.start.s, 7)).ok
\* an entry whose end is 'present', 'current' or the empty string
HasOpenEnd(e) ==
    /\ e.dates.end.type = "str"
    /\ Lower(e.dates.end.s) \in {S_present, S_current, <<>>}
\* an entry with a field that is neither a usable duration nor a date
HasUnparseableField(e) ==
    \/ e.dates.duration.type # "str"
    \/ /\ HasUsableDuration(e)
       /\ ~NumberBefore(Lower(e.dates.duration.s), W_year).found
       /\ ~NumberBefore(Lower(e.dates.duration.s), W_month).found
    \/ /\ HasNoUsableDuration(e)
       /\ \/ ~HasParseableStart(e)
          \/ e.dates.end.type # "str"
          \/ ~HasOpenEnd(e) /\ ~Strptime(Prefix(e.dates.end.s, 7)).ok

\* C12: for every resume record, calculate_experience_years returns a value
\* >= 0, also when an entry's end date is earlier than its start date.
C12_YearsNonNegative ==
    qpc = "done" => experience_years >= 0

\* C16: an entry with no usable duration, a parseable 'YYYY-MM' start and an
\* end of 'present', 'current' or '' contributes the days from its start to the
\* current date, divided by 365.25 (here: the only entry of the record).
C16_OpenEndCountsToNow ==
    (/\ qpc = "done"
     /\ Len(resume.experience) = 1
     /\ HasNoUsableDuration(resume.experience[1])
     /\ HasParseableStart(resume.experience[1])
     /\ HasOpenEnd(resume.experience[1]))
    => LET start_date == Strptime(Prefix(resume.experience[1].dates.start.s, 7))
       IN  experience_years = RoundTenths((now - start_date.day) * DayUnits)

\* the months Y * 12 + M that the durations of the entries spell out
RECURSIVE DurationMonths(_)
DurationMonths(experiences) ==
    IF experiences = <<>> THEN 0
    ELSE LET d == Lower(Head(experiences).dates.duration.s) IN
         12 * NumberBefore(d, W_year).n + NumberBefore(d, W_month).n
             + DurationMonths(Tail(experiences))

AllUsableDurations ==
    \A i \in 1..Len(resume.experience) : HasUsableDuration(resume.experience[i])

\* C17: when every entry has a duration string that is non-empty and not a
\* sentinel ('unknown', 'not provided', 'present'), the call returns, and its
\* result is the sum of Y + M/12 over the entries (Y, M the first 'N year' and
\* 'N month' numbers, 0 when absent) rounded to one decimal place, whatever
\* the start and end dates are; '1 year 6 months' alone gives 1.5.
C17_DurationYearsAndMonths ==
    AllUsableDurations =>
        /\ qpc # "AttributeError"
        /\ qpc = "done" =>
             LET months == DurationMonths(resume.experience) IN
             /\ 10 * months - 12 * experience_years <= 6
             /\ 12 * experience_years - 10 * months <= 6
             /\ (Len(resume.experience) = 1
                   /\ resume.experience[1].dates.duration.s = D_1Year6Months)
                => experience_years = 15

\* '1 year 6 months' with start and end dates two years apart, then
\* '3 Months': 1.75 years, returned as 1.8
C17_Witness ==
    /\ qpc = "done"
    /\ Len(resume.experience) = 2
    /\ resume.experience[1] = Dates(Str(D_1Year6Months), Str(T_2018_01), Str(T_2020_01))
    /\ resume.experience[2].dates.duration.s = D_3Months
    /\ experience_years = 18

\* C18: an entry with a duration, start or end that cannot be parsed makes
\* calculate_experience_years raise nothing and adds 0: the result is that of
\* the record without such entries.
C18_UnparseableAddsZero ==
    LET parsed == SelectSeq(resume.experience, LAMBDA e : ~HasUnparseableField(e)) IN
    /\ qpc # "AttributeError"
    /\ qpc = "done" => experience_years = RoundTenths(TotalYears(parsed, now).units)

-----------------------------------------------------------------------------
(* The sub-scores of calculate_quality_score                                *)

\* how many of summary, contact email and projects the record has
StructureCount(r) ==
    (IF Strip(r.personal_info.summary) # <<>> THEN 1 ELSE 0)
        + (IF Strip(r.personal_info.email) # <<>> THEN 1 ELSE 0)
        + (IF Len(r.projects) > 0 THEN 1 ELSE 0)

\* C13: the structure-completeness sub-score is 10 when summary, contact
\* email and at least one project are all present, 7 when exactly two of the
\* three are (any pair), 5 when exactly one is, and 0 when none is.
C13_StructureByCount ==
    qpc = "done" =>
        StructureCompleteness(resume) =
            CASE StructureCount(resume) = 3 -> 10
              [] StructureCount(resume) = 2 -> 7
              [] StructureCount(resume) = 1 -> 5
              [] OTHER -> 0

\* C14: each of the five sub-scores stays within its cap: experience 30,
\* skills 25, achievements 25, education (degree points plus certification
\* bonus) 10, structure 10.
C14_SubScoresWithinCaps ==
    qpc = "done" =>
        /\ ExperienceDepth(experience_years) \in 0..30
        /\ SkillsRichness(skills) \in 0..25
        /\ AchievementQuality(resume) \in 0..25
        /\ EducationPriority(education_level) + CertificationBonus(resume) \in 0..10
        /\ StructureCompleteness(resume) \in 0..10

-----------------------------------------------------------------------------
(* extract_experience_summary (prepare_resume_dataset.py)                   *)

\* sep.join(parts)
RECURSIVE Join(_, _)
Join(parts, sep) ==
    IF parts = <<>> THEN <<>>
    ELSE IF Len(parts) = 1 THEN parts[1]
    ELSE parts[1] \o sep \o Join(Tail(parts), sep)

S_at    == <<" ", "a", "t", " ">>
S_comma == <<",", " ">>

\* if title and company and title.lower() not in ["unknown", "not provided"]
InSummary(exp) ==
    LET title   == Strip(exp.title)
        company == Strip(exp.company)
    IN  /\ title # <<>>
        /\ company # <<>>
        /\ Lower(title) \notin {S_unknown, S_not_provided}

\* f"{title} at {company}"
TitleAtCompany(exp) == Strip(exp.title) \o S_at \o Strip(exp.company)

extract_experience_summary(r) ==
    LET kept == SelectSeq(r.experience, InSummary)
        summary_parts == [i \in 1..Len(kept) |-> TitleAtCompany(kept[i])]
    IN  Join(Prefix(summary_parts, 5), S_comma)

MaxTitledEntries == 6

T_QA == <<" ", "Q", "A", " ">>
T_X  == <<"X">>

\* experience entries by title and company: plain, padded with blanks, a
\* sentinel title, a sentinel company, no company
TitledEntries ==
    {[title |-> T_Dev,     company |-> T_X],
     [title |-> T_QA,      company |-> T_X],
     [title |-> T_Unknown, company |-> T_X],
     [title |-> T_Dev,     company |-> T_Unknown],
     [title |-> T_Dev,     company |-> <<>>]}

InitSummary ==
    /\ resume \in [experience : ListsUpTo(TitledEntries, MaxTitledEntries)]
    /\ now = 0
    /\ skills = <<>>
    /\ experience_summary = <<>>
    /\ education_level = <<>>
    /\ experience_years = 0
    /\ score = None
    /\ qpc = "call"
    /\ ParseIdle /\ DatasetIdle /\ TrainIdle /\ VectorIdle /\ InferIdle /\ GenIdle /\ VoiceIdle

\* experience_summary = extract_experience_summary(resume)
ExtractExperienceSummary ==
    /\ qpc = "call"
    /\ experience_summary' = extract_experience_summary(resume)
    /\ qpc' = "done"
    /\ UNCHANGED <<resume, now, skills, education_level, experience_years, score>>
    /\ UNCHANGED <<parseVars, datasetVars, trainVars, vectorVars, inferVars, genVars, voiceVars>>

NextSummary == ExtractExperienceSummary

SpecSummary == InitSummary /\ [][NextSummary]_vars

\* a field that is non-empty and not a sentinel
IsProvided(field) ==
    /\ Strip(field) # <<>>
    /\ Lower(Strip(field)) \notin {S_unknown, S_not_provided}

\* the entries the summary should name: title and company both provided
HasTitleAndCompany(exp) == IsProvided(exp.title) /\ IsProvided(exp.company)

\* C15: extract_experience_summary returns the 'Title at Company' strings,
\* joined by ', ' in source order, of the first 5 entries whose title and
\* company are both non-empty and not 'unknown' / 'not provided'; no other
\* entry is included.
C15_SummaryOfProvidedEntries ==
    qpc = "done" =>
        LET named == SelectSeq(resume.experience, HasTitleAndCompany) IN
        experience_summary =
            Join([i \in 1..Min(5, Len(named)) |-> TitleAtCompany(named[i])], S_comma)

-----------------------------------------------------------------------------
(* extract_education_level (prepare_resume_dataset.py)                      *)

\* priority.get(d.lower(), 0)
EducationRank(d) ==
    LET k == Lower(d) IN
    IF k \in {<<"p","h","d">>, <<"p","h",".","d">>,
              <<"d","o","c","t","o","r","a","t","e">>} THEN 5
    ELSE IF k \in {<<"m","e">>, <<"m",".","e">>, <<"m","s">>, <<"m",".","s">>,
                   <<"m","a","s","t","e","r">>} THEN 4
    ELSE IF k \in {<<"b","e">>, <<"b",".","e">>, <<"b","s">>, <<"b",".","s">>,
                   <<"b","a","c","h","e","l","o","r">>} THEN 3
    ELSE IF k = <<"d","i","p","l","o","m","a">> THEN 2
    ELSE IF k \in {<<"h","s","c">>, <<"s","s","c">>} THEN 1
    ELSE 0

\* the stripped level of an education entry
DegreeLevel(edu) == Strip(edu.degree.level)

\* if level and level.lower() not in ["unknown", "not provided", ""]
IsDegreeLevel(edu) ==
    /\ DegreeLevel(edu) # <<>>
    /\ Lower(DegreeLevel(edu)) \notin {S_unknown, S_not_provided, <<>>}

\* a max() that keeps the last of several maximal items
RECURSIVE MaxByRankLast(_, _)
MaxByRankLast(best, rest) ==
    IF rest = <<>> THEN best
    ELSE MaxByRankLast(IF EducationRank(Head(rest)) >= EducationRank(best)
                       THEN Head(rest) ELSE best,
                       Tail(rest))

\* max(iterable, key=...): an item replaces the best so far only when its key
\* is strictly greater
RECURSIVE MaxByRank(_, _)
MaxByRank(best, rest) ==
    IF rest = <<>> THEN best
    ELSE MaxByRank(IF EducationRank(Head(rest)) > EducationRank(best)
                   THEN Head(rest) ELSE best,
                   Tail(rest))

extract_education_level(r) ==
    LET education_list == r.education
        kept == SelectSeq(education_list, IsDegreeLevel)
        degree_levels == [i \in 1..Len(kept) |-> DegreeLevel(kept[i])]
    IN  IF education_list = <<>> THEN T_Unknown
        ELSE IF degree_levels = <<>> THEN T_Unknown
        ELSE MaxByRank(Head(degree_levels), Tail(degree_levels))

MaxEducation == 3

T_BSDot   == <<"B", ".", "S", ".">>
T_MEBlank == <<" ", "M", "E", " ">>

\* degree levels: ranked and unranked ones, two of the same rank, one padded
\* with blanks, a sentinel, an empty one
LevelStrings == {T_PhD, T_BSDot, T_Diploma, T_MS, T_MEBlank, T_Unknown, <<>>}
EducationEntries == {[degree |-> [level |-> l]] : l \in LevelStrings}

InitEducation ==
    /\ resume \in [education : ListsUpTo(EducationEntries, MaxEducation)]
    /\ now = 0
    /\ skills = <<>>
    /\ experience_summary = <<>>
    /\ education_level = <<>>
    /\ experience_years = 0
    /\ score = None
    /\ qpc = "call"
    /\ ParseIdle /\ DatasetIdle /\ TrainIdle /\ VectorIdle /\ InferIdle /\ GenIdle /\ VoiceIdle

\* education_level = extract_education_level(resume)
ExtractEducationLevel ==
    /\ qpc = "call"
    /\ education_level' = extract_education_level(resume)
    /\ qpc' = "done"
    /\ UNCHANGED <<resume, now, skills, experience_summary, experience_years, score>>
    /\ UNCHANGED <<parseVars, datasetVars, trainVars, vectorVars, inferVars, genVars, voiceVars>>

NextEducation == ExtractEducationLevel

SpecEducation == InitEducation /\ [][NextEducation]_vars

\* the non-sentinel degree levels of the record, stripped, in list order
DegreeLevels ==
    LET kept == SelectSeq(resume.education, IsDegreeLevel) IN
    [i \in 1..Len(kept) |-> DegreeLevel(kept[i])]

\* C19: extract_education_level returns the first of the non-sentinel degree
\* levels whose rank in the priority table is maximal, 'PhD' for
\* ['B.S.', 'PhD', 'Diploma'], and 'Unknown' when the education list is empty
\* or holds sentinels only.
C19_FirstHighestLevel ==
    qpc = "done" =>
        /\ DegreeLevels = <<>> => education_level = T_Unknown
        /\ DegreeLevels # <<>> =>
             \E i \in 1..Len(DegreeLevels) :
                /\ education_level = DegreeLevels[i]
                /\ \A j \in 1..Len(DegreeLevels) :
                      EducationRank(DegreeLevels[j]) <= EducationRank(DegreeLevels[i])
                /\ \A j \in 1..(i - 1) :
                      EducationRank(DegreeLevels[j]) < EducationRank(DegreeLevels[i])
        /\ DegreeLevels = <<T_BSDot, T_PhD, T_Diploma>> => education_level = T_PhD

\* two levels of the top rank after a lower one: the first of the two, with
\* its blanks stripped, is returned
C19_Witness ==
    /\ qpc = "done"
    /\ Len(resume.education) = 3
    /\ resume.education[1].degree.level = T_Diploma
    /\ resume.education[2].degree.level = T_MEBlank
    /\ resume.education[3].degree.level = T_MS
    /\ education_level = <<"M", "E">>

-----------------------------------------------------------------------------
(* extract_skills (prepare_resume_dataset.py)                               *)

\* the sub-categories of resume["skills"]["technical"], in the order read
SkillCategories ==
    <<"programming_languages", "frameworks", "databases", "cloud",
      "project_management", "automation", "software_tools">>

\* if name and name.lower() not in ["unknown", "not provided", ""]
IsSkillName(name) ==
    /\ name # <<>>
    /\ Lower(name) \notin {S_unknown, S_not_provided, <<>>}

\* the names one loop appends: item.get("name", "").strip(), filtered
NamesAppended(items) ==
    SelectSeq([i \in 1..Len(items) |-> Strip(items[i].name)], IsSkillName)

\* the list `skills` after the loops over the first n categories
RECURSIVE SkillsAppended(_, _)
SkillsAppended(technical, n) ==
    IF n = 0 THEN <<>>
    ELSE SkillsAppended(technical, n - 1) \o NamesAppended(technical[SkillCategories[n]])

\* set(skills)
SetOf(list) == {list[i] : i \in 1..Len(list)}

\* a return statement that hands back the list as appended
ListAsAppended(list) == {list}
\* list(set(skills)): the elements once each, in an order the set decides
ListOfSet(list) ==
    LET S == SetOf(list) IN
    {q \in [1..Cardinality(S) -> S] : \A i, j \in 1..Cardinality(S) : q[i] = q[j] => i = j}

\* the lists extract_skills(resume) may return
extract_skills(r) == ListOfSet(SkillsAppended(r.skills.technical, Len(SkillCategories)))

T_Go      == <<"G", "o">>
T_GoBlank == <<" ", "G", "o", " ">>
T_go      == <<"g", "o">>

\* the lists of a sub-category: empty, one name, the same name padded and a
\* sentinel, the name in another letter case and an empty name
CategoryLists ==
    {<<>>,
     <<[name |-> T_Go]>>,
     <<[name |-> T_GoBlank], [name |-> T_Unknown]>>,
     <<[name |-> T_go], [name |-> <<>>]>>}

InitSkills ==
    /\ resume \in [skills : [technical : [SetOf(SkillCategories) -> CategoryLists]]]
    /\ now = 0
    /\ skills = <<>>
    /\ experience_summary = <<>>
    /\ education_level = <<>>
    /\ experience_years = 0
    /\ score = None
    /\ qpc = "call"
    /\ ParseIdle /\ DatasetIdle /\ TrainIdle /\ VectorIdle /\ InferIdle /\ GenIdle /\ VoiceIdle

\* skills = extract_skills(resume)
ExtractSkills ==
    /\ qpc = "call"
    /\ skills' \in extract_skills(resume)
    /\ qpc' = "done"
    /\ UNCHANGED <<resume, now, experience_summary, education_level,
                   experience_years, score>>
    /\ UNCHANGED <<parseVars, datasetVars, trainVars, vectorVars, inferVars, genVars, voiceVars>>

NextSkills == ExtractSkills

SpecSkills == InitSkills /\ [][NextSkills]_vars

\* the stripped names of all items of all seven sub-categories
AllSkillNames ==
    LET technical == resume.skills.technical IN
    UNION {{Strip(technical[c][i].name) : i \in 1..Len(technical[c])} :
              c \in SetOf(SkillCategories)}

\* C20: extract_skills returns the names of all seven technical
\* sub-categories, stripped, each once however many categories list it (names
\* differing in letter case are different), and never an empty string or
\* 'unknown' / 'not provided' in any letter case.
C20_SkillsAreTheDistinctNames ==
    qpc = "done" =>
        /\ \A i, j \in 1..Len(skills) : skills[i] = skills[j] => i = j
        /\ \A i \in 1..Len(skills) :
               skills[i] # <<>> /\ Lower(skills[i]) \notin {S_unknown, S_not_provided}
        /\ SetOf(skills) =
               {n \in AllSkillNames :
                   n # <<>> /\ Lower(n) \notin {S_unknown, S_not_provided}}

\* 'Go' in the first category, ' Go ' and a sentinel in the last, 'go' in
\* between: the result holds 'Go' once, and 'go'
C20_Witness ==
    /\ qpc = "done"
    /\ resume.skills.technical["programming_languages"] = <<[name |-> T_Go]>>
    /\ resume.skills.technical["cloud"] = <<[name |-> T_go], [name |-> <<>>]>>
    /\ resume.skills.technical["software_tools"] =
           <<[name |-> T_GoBlank], [name |-> T_Unknown]>>
    /\ skills = <<T_go, T_Go>>

-----------------------------------------------------------------------------
(* build_vocab and build_skill_vocab (fine_tuning/train_lora.py)            *)

\* the number of items of list equal to x
CountOf(list, x) == Cardinality({i \in 1..Len(list) : list[i] = x})

\* A Counter after counting the items of `list` in order: its keys in the
\* order of their first insertion, and the count of each key.
CounterKeys(list) ==
    LET firsts == SelectSeq([i \in 1..Len(list) |-> i],
                            LAMBDA i : \A j \in 1..(i - 1) : list[j] # list[i])
    IN  [k \in 1..Len(firsts) |-> list[firsts[k]]]
CounterOf(list) ==
    LET keys == CounterKeys(list) IN
    [k \in 1..Len(keys) |-> [key |-> keys[k], count |-> CountOf(list, keys[k])]]

\* a sort that puts the later of two entries with equal counts first
SortedByCountLatestFirst(entries) ==
    LET n == Len(entries)
        rank == [k \in 1..n |->
                    1 + Cardinality({j \in 1..n : entries[j].count > entries[k].count})
                      + Cardinality({j \in (k + 1)..n : entries[j].count = entries[k].count})]
    IN  [r \in 1..n |-> entries[CHOOSE k \in 1..n : rank[k] = r]]
\* sorted(entries, key=count, reverse=True): descending counts; the sort is
\* stable, entries with equal counts keep their order
SortedByCount(entries) ==
    LET n == Len(entries)
        rank == [k \in 1..n |->
                    1 + Cardinality({j \in 1..n : entries[j].count > entries[k].count})
                      + Cardinality({j \in 1..(k - 1) : entries[j].count = entries[k].count})]
    IN  [r \in 1..n |-> entries[CHOOSE k \in 1..n : rank[k] = r]]

\* an enumerate() that starts at 1
EnumerateFromOne(i) == i
\* enumerate(): the index given to the i-th item of a list
Enumerate(i) == i - 1

\* {key: i for i, (key, _) in enumerate(entries)}: a dict as a function; of
\* several entries with one key the last one assigns the value
DictOfEnumerate(entries) ==
    [key \in {entries[i].key : i \in 1..Len(entries)} |->
        Enumerate(CHOOSE i \in 1..Len(entries) :
                      /\ entries[i].key = key
                      /\ \A j \in (i + 1)..Len(entries) : entries[j].key # key)]

\* the tokens counted by build_vocab, in reading order:
\* for item in ds.items: for token in (item.get("text") or "").lower().split()
RECURSIVE ShardTokens(_)
ShardTokens(items) ==
    IF items = <<>> THEN <<>>
    ELSE Split(Lower(Head(items).text)) \o ShardTokens(Tail(items))

\* build_vocab(ds, max_tokens): c.most_common(max_tokens), enumerated
build_vocab(items, n) ==
    DictOfEnumerate(Prefix(SortedByCount(CounterOf(ShardTokens(items))), n))

\* the skills counted by build_skill_vocab, in reading order: of the items
\* whose skills field is a list, the non-empty strings, lower-cased
RECURSIVE ShardSkills(_)
ShardSkills(items) ==
    IF items = <<>> THEN <<>>
    ELSE LET item == Head(items)
             listed == IF item.skills.is_list
                       THEN SelectSeq(item.skills.val, LAMBDA skill : skill # <<>>)
                       ELSE <<>>
         IN  [i \in 1..Len(listed) |-> Lower(listed[i])] \o ShardSkills(Tail(items))

\* a filter that keeps every counted skill
KeepAllCounts(entries, least) == entries
\* {skill: count for skill, count in skill_counter.items() if count >= min_count}
FilterMinCount(entries, least) ==
    SelectSeq(entries, LAMBDA e : e.count >= least)

\* the slice [:200] of the sorted skills
TopSkills == 200

\* build_skill_vocab(ds, min_count)
build_skill_vocab(items, least) ==
    DictOfEnumerate(
        Prefix(SortedByCount(FilterMinCount(CounterOf(ShardSkills(items)), least)),
               TopSkills))

MaxShardItems == 3
ManySkills == 201

T_SQL == <<"S", "Q", "L">>
T_sql == <<"s", "q", "l">>

SkillList(val) == [is_list |-> TRUE, val |-> val]
\* a skills field that is a string, not a list
SkillString == [is_list |-> FALSE, val |-> <<>>]

\* the records of a training shard, by their text and skills fields
ShardItems ==
    {[text |-> <<"b", " ", "a">>,           skills |-> SkillList(<<T_Go, T_SQL>>)],
     [text |-> <<"A", " ", "c", " ", "a">>, skills |-> SkillList(<<T_go>>)],
     [text |-> <<>>,                        skills |-> SkillList(<<T_SQL, <<>>, T_Go>>)],
     [text |-> <<"c", "\n", "B">>,          skills |-> SkillString],
     [text |-> <<"c", " ", "c">>,           skills |-> SkillList(<<T_sql, T_SQL>>)]}

\* the skill name "S" followed by the three digits of n
NumberedSkill(n) ==
    <<"S", Digits[((n \div 100) % 10) + 1], Digits[((n \div 10) % 10) + 1],
      Digits[(n % 10) + 1]>>

\* a shard with ManySkills distinct skills, each listed by two records, the
\* last of them by a third record too
LargeShard ==
    LET many == [n \in 1..ManySkills |-> NumberedSkill(n)] IN
    <<[text |-> <<>>, skills |-> SkillList(many)],
      [text |-> <<>>, skills |-> SkillList(many)],
      [text |-> <<>>, skills |-> SkillList(<<NumberedSkill(ManySkills)>>)]>>

MaxTokensArgs == {1, 2, 5000}
MinCountArgs == {1, 2}

InitVocab ==
    /\ train_ds \in ListsUpTo(ShardItems, MaxShardItems) \cup {LargeShard}
    /\ max_tokens \in MaxTokensArgs
    /\ min_count \in MinCountArgs
    /\ val_ds = 0
    /\ vocab = <<>>
    /\ skill_vocab = <<>>
    /\ state_dict = 0
    /\ epoch = 0
    /\ best_val_loss = Infinity
    /\ avg_val_loss = 0
    /\ val_losses = <<>>
    /\ model_pt = NoCheckpoint
    /\ saves = {}
    /\ tpc = "build_vocab"
    /\ ScoreIdle /\ ParseIdle /\ DatasetIdle /\ VectorIdle /\ InferIdle /\ GenIdle /\ VoiceIdle

\* vocab = build_vocab(train_ds, max_tokens=...)
BuildVocab ==
    /\ tpc = "build_vocab"
    /\ vocab' = build_vocab(train_ds, max_tokens)
    /\ tpc' = "build_skill_vocab"
    /\ UNCHANGED <<train_ds, val_ds, skill_vocab, state_dict, epoch, best_val_loss,
                   avg_val_loss, val_losses, model_pt, saves, max_tokens, min_count>>
    /\ UNCHANGED <<scoreVars, parseVars, datasetVars, vectorVars, inferVars, genVars, voiceVars>>

\* skill_vocab = build_skill_vocab(train_ds, min_count=...)
BuildSkillVocab ==
    /\ tpc = "build_skill_vocab"
    /\ skill_vocab' = build_skill_vocab(train_ds, min_count)
    /\ tpc' = "built"
    /\ UNCHANGED <<train_ds, val_ds, vocab, state_dict, epoch, best_val_loss,
                   avg_val_loss, val_losses, model_pt, saves, max_tokens, min_count>>
    /\ UNCHANGED <<scoreVars, parseVars, datasetVars, vectorVars, inferVars, genVars, voiceVars>>

NextVocab == BuildVocab \/ BuildSkillVocab

SpecVocab == InitVocab /\ [][NextVocab]_vars

\* the position of the first occurrence of x in list
FirstSeen(list, x) == CHOOSE i \in 1..Len(list) : list[i] = x /\ \A j \in 1..(i - 1) : list[j] # x

\* x comes before y in descending frequency, ties by first-seen order
MoreFrequent(list, x, y) ==
    \/ CountOf(list, x) > CountOf(list, y)
    \/ CountOf(list, x) = CountOf(list, y) /\ FirstSeen(list, x) < FirstSeen(list, y)

\* the number of entries of S that come before x
PlaceOf(list, S, x) == Cardinality({y \in S : MoreFrequent(list, y, x)})

C22_SkillVocabIsFrequentSkills ==
    tpc = "built" =>
        LET listed == ShardSkills(train_ds)
            E == {s \in SetOf(listed) : CountOf(listed, s) >= min_count}
            V == DOMAIN skill_vocab
        IN  /\ V \subseteq E
            /\ \A s \in V : s = Lower(s)
            /\ Cardinality(V) = Min(200, Cardinality(E))
            /\ \A s \in V : \A u \in E \ V : CountOf(listed, s) >= CountOf(listed, u)
            /\ \A s, u \in V :
                   skill_vocab[s] < skill_vocab[u] => CountOf(listed, s) >= CountOf(listed, u)

\* more than 200 skills occur at least min_count times: the one listed three
\* times gets index 0, 200 entries are kept, and the last but one of those
\* listed twice is cut off
C22_Witness ==
    /\ tpc = "built"
    /\ train_ds = LargeShard
    /\ min_count = 2
    /\ Cardinality(DOMAIN skill_vocab) = 200
    /\ skill_vocab[Lower(NumberedSkill(ManySkills))] = 0
    /\ Lower(NumberedSkill(ManySkills - 1)) \notin DOMAIN skill_vocab

\* the values of a dict are 0 .. len - 1, each once
ContiguousIndices(dict) ==
    /\ {dict[key] : key \in DOMAIN dict} = 0..(Cardinality(DOMAIN dict) - 1)
    /\ \A k1, k2 \in DOMAIN dict : dict[k1] = dict[k2] => k1 = k2

\* C23: for every training shard, the index values of the token vocabulary
\* and of the skill vocabulary are exactly 0 .. |vocab| - 1, each index given
\* to exactly one entry.
C23_IndicesContiguous ==
    /\ tpc \in {"build_skill_vocab", "built"} => ContiguousIndices(vocab)
    /\ tpc = "built" => ContiguousIndices(skill_vocab)

\* a shard that gives three tokens and two skills
C23_Witness ==
    /\ tpc = "built"
    /\ Cardinality(DOMAIN vocab) = 3
    /\ Cardinality(DOMAIN skill_vocab) = 2
    /\ \E t \in DOMAIN vocab : vocab[t] = 2
    /\ \E s \in DOMAIN skill_vocab : skill_vocab[s] = 1

-----------------------------------------------------------------------------
(* Concurrent /parse requests and the ML parser (resume_parser.py)          *)

NumRequests == 2
RequestIds == 1..NumRequests

\* sum of w[i] * x[i]
RECURSIVE Dot(_, _)
Dot(w, x) == IF w = <<>> THEN 0 ELSE Head(w) * Head(x) + Dot(Tail(w), Tail(x))

\* model(x) in eval mode under torch.no_grad(): a fixed function of the input
\* vector and the state_dict.  A linear read-out stands for the network: one
\* row of weights per skill output, one for the score.
Forward(state_dict_, x) ==
    [skills_probs |-> [j \in 1..Len(state_dict_.skills_head) |->
                          IF Dot(state_dict_.skills_head[j], x) > 0 THEN 95 ELSE 5],
     score_pred   |-> 50 + Dot(state_dict_.score_head, x)]

\* what _load_ml_parser binds for parse_fn: vocab, skill_vocab and the model
\* built from the checkpoint, all local to the call
LoadedParser(file) ==
    [vocab |-> file.vocab, skill_vocab |-> file.skill_vocab,
     state_dict |-> file.state_dict]

\* parse_fn(text) on a loaded parser: skills by name, score, confidence
ParseWith(parser, txt) ==
    LET out == Forward(parser.state_dict, vectorize_text(txt, parser.vocab))
        result == parse_fn(txt, out)
    IN  [skills     |-> {parser.skill_vocab[i] : i \in result.skills},
         score      |-> result.score,
         confidence |-> result.confidence]

\* an inference that adds the tokens it does not know to its vocabulary
InferenceGrowingVocab(parser, txt) ==
    LET unknown == SelectSeq(Split(Lower(txt)), LAMBDA t : ~InVocab(t, parser.vocab)) IN
    [parser |-> [parser EXCEPT !.vocab = @ \o unknown],
     result |-> ParseWith(parser, txt)]
\* the ML step of one request: the parser after the call, and the result
Inference(parser, txt) ==
    [parser |-> parser, result |-> ParseWith(parser, txt)]

\* checkpoints on disk: one skill read from token 'a', a score that grows
\* with 'a' and falls with 'b'; the second one with no skill at all
ModelFiles ==
    {[vocab |-> <<<<"a">>, <<"b">>>>, skill_vocab |-> <<T_go>>,
      state_dict |-> [skills_head |-> <<<<1, 0>>>>, score_head |-> <<25, -25>>]],
     [vocab |-> <<<<"b">>>>, skill_vocab |-> <<>>,
      state_dict |-> [skills_head |-> <<>>, score_head |-> <<50>>]]}

RequestTexts ==
    {<<"a">>, <<"B", " ", "a">>, <<"a", " ", "a">>, <<"c", " ", "b">>}

NoParse == [skills |-> {}, score |-> 0, confidence |-> NoConfidence]
NotLoaded == [vocab |-> <<>>, skill_vocab |-> <<>>, state_dict |-> 0]

InitInfer ==
    /\ model_file \in ModelFiles
    /\ handlers \in [RequestIds -> [pc : {"received"}, text_content : RequestTexts,
                                    parser : {NotLoaded}, ml_result : {NoParse}]]
    /\ ScoreIdle /\ ParseIdle /\ DatasetIdle /\ TrainIdle /\ VectorIdle /\ GenIdle /\ VoiceIdle

\* text_content = await extract_text_from_file(file): request r resumes
ExtractTextOf(r) ==
    /\ handlers[r].pc = "received"
    /\ handlers' = [handlers EXCEPT ![r].pc = "extracted"]
    /\ UNCHANGED model_file
    /\ UNCHANGED <<scoreVars, parseVars, datasetVars, trainVars, vectorVars, genVars, voiceVars>>

\* From _load_ml_parser() to the confidence test there is no await: request r
\* loads model.pt into objects of its own and runs parse_fn on its text in
\* one step of the event loop.
MLInference(r) ==
    /\ handlers[r].pc = "extracted"
    /\ LET done == Inference(LoadedParser(model_file), handlers[r].text_content) IN
       handlers' = [handlers EXCEPT ![r].pc = "parsed",
                                    ![r].parser = done.parser,
                                    ![r].ml_result = done.result]
    /\ UNCHANGED model_file
    /\ UNCHANGED <<scoreVars, parseVars, datasetVars, trainVars, vectorVars, genVars, voiceVars>>

NextInfer == \E r \in RequestIds : ExtractTextOf(r) \/ MLInference(r)

SpecInfer == InitInfer /\ [][NextInfer]_vars

-----------------------------------------------------------------------------
(***************************************************************************)
(* interview_generator.py: the /generate handler and the module's _cache   *)
(*                                                                         *)
(* generate_questions is an async def with one await, request.json().      *)
(* model.generate_content is an ordinary blocking call, so everything from *)
(* the computation of cache_key to the return runs in one step of the      *)
(* event loop.  hashlib.sha1 is taken to be free of collisions: a cache    *)
(* key is the string that is hashed.  json.dumps(resume_data) is a text by *)
(* its runs: `start`, then `run` copies of one character, then `rest`.     *)
(* Of a question only "id" and "question" are kept.                        *)
(***************************************************************************)
SnippetLen == 1200
DefaultNumQuestions == 5

\* a JSON value of the request body; an int is held by its decimal digits
Absent == [type |-> "absent", s |-> <<>>]
IntValue(chars) == [type |-> "int", s |-> chars]

\* int(v) raises ValueError for a str that is no decimal number
IntRaises(v) ==
    v.type = "str" /\ (v.s = <<>> \/ \E i \in 1..Len(v.s) : ~IsDigit(v.s[i]))
\* int(data.get("numQuestions", 5))
NumQuestions(v) == IF v.type = "absent" THEN DefaultNumQuestions ELSE ParseInt(v.s)

\* str(n) of an n >= 0
RECURSIVE Decimal(_)
Decimal(n) ==
    IF n < 10 THEN <<Digits[n + 1]>>
    ELSE Decimal(n \div 10) \o <<Digits[(n % 10) + 1]>>

\* json.dumps(resume_data)[:1200]
ResumeSnippet(dumps) ==
    IF Len(dumps.start) + dumps.run >= SnippetLen
    THEN [start |-> Prefix(dumps.start, SnippetLen),
          run   |-> SnippetLen - Min(Len(dumps.start), SnippetLen),
          rest  |-> <<>>]
    ELSE [dumps EXCEPT !.rest = Prefix(@, SnippetLen - Len(dumps.start) - dumps.run)]

\* the string f"{job_title}|{difficulty}|{num_questions}|{resume_snippet}"
\* whose SHA-1 digest is the key
CacheKey(job_title, difficulty, num_questions, resume_snippet) ==
    [resume_snippet EXCEPT
        !.start = job_title \o <<"|">> \o difficulty \o <<"|">>
                  \o Decimal(num_questions) \o <<"|">> \o @]

\* cache_key of a request body whose numQuestions converts
KeyOf(data) ==
    CacheKey(data.jobTitle, data.difficulty, NumQuestions(data.numQuestions),
             ResumeSnippet(data.resume))

\* the question texts: those of the LLM, the padding of lines 90-96 and the
\* five built-in ones of lines 112-118, which quote job_title (the fourth
\* does not)
AIQuestion(i) == [kind |-> "ai", n |-> i, job_title |-> <<>>]
PaddingQuestion(job_title) == [kind |-> "challenge", n |-> 0, job_title |-> job_title]
EnhancedQuestion(i, job_title) ==
    [kind |-> "enhanced", n |-> i, job_title |-> IF i = 4 THEN <<>> ELSE job_title]

\* lines 81-96: the first num_questions parsed questions, numbered from 1,
\* padded up to num_questions
Formatted(parsed_questions, num_questions, job_title) ==
    [i \in 1..Max(num_questions, Min(Len(parsed_questions), num_questions)) |->
        [id |-> i,
         question |-> IF i <= Len(parsed_questions) THEN parsed_questions[i]
                      ELSE PaddingQuestion(job_title)]]

\* lines 112-118
EnhancedQuestions(num_questions, job_title) ==
    [i \in 1..Min(5, num_questions) |->
        [id |-> i, question |-> EnhancedQuestion(i, job_title)]]

\* the test with its outcome ignored
NeverInCache(dict, cache_key) == FALSE
\* `cache_key in _cache`
InCache(dict, cache_key) == cache_key \in DOMAIN dict

\* _cache[cache_key] = formatted
Stored(dict, cache_key, formatted) ==
    [k \in DOMAIN dict \cup {cache_key} |->
        IF k = cache_key THEN formatted ELSE dict[k]]

\* what model.generate_content and the parsing of its text come to: the call
\* raises, the text holds no '[' ... ']' that json.loads accepts, or it holds
\* a list of question objects
MaxAIQuestions == 2
LLMOutcomes ==
    {[kind |-> "raises", parsed_questions |-> <<>>],
     [kind |-> "invalid", parsed_questions |-> <<>>]}
    \cup {[kind |-> "list", parsed_questions |-> [i \in 1..n |-> AIQuestion(i)]] :
            n \in 1..MaxAIQuestions}

NoReply == [success |-> FALSE, questions |-> <<>>, source |-> "None",
            llm_called |-> FALSE]
\* the JSON of the four returns
CacheReply(questions) ==
    [success |-> TRUE, questions |-> questions, source |-> "cache", llm_called |-> FALSE]
AIReply(questions) ==
    [success |-> TRUE, questions |-> questions, source |-> "ai", llm_called |-> TRUE]
FallbackReply(questions, called) ==
    [success |-> TRUE, questions |-> questions, source |-> "fallback",
     llm_called |-> called]
ErrorReply == [success |-> FALSE, questions |-> <<>>, source |-> "error",
               llm_called |-> FALSE]

\* the fallback after a failed generation stored as if it were the LLM's
FallbackStored(dict, cache_key, outcome, formatted, enhanced) ==
    Stored(dict, cache_key, IF outcome.kind = "list" THEN formatted ELSE enhanced)
\* lines 72-118: _cache after the try block, for each outcome of the LLM call
CacheAfter(dict, cache_key, outcome, formatted, enhanced) ==
    IF outcome.kind = "list" THEN Stored(dict, cache_key, formatted) ELSE dict

(***************************************************************************)
(* The requests that the model explores                                    *)
(***************************************************************************)
T_QAJob   == <<"Q", "A">>
T_DevJob  == <<"D", "e", "v">>
T_easy    == <<"e", "a", "s", "y">>
\* two long resumes that differ after their first 1200 characters, and {}
ResumeDumps ==
    {[start |-> <<"{", "}">>, run |-> 0, rest |-> <<>>],
     [start |-> <<"{">>, run |-> SnippetLen, rest |-> <<"A", "}">>],
     [start |-> <<"{">>, run |-> SnippetLen, rest |-> <<"B", "}">>]}
Bodies ==
    [jobTitle : {T_QAJob, T_DevJob}, difficulty : {T_easy},
     numQuestions : {IntValue(<<"1">>), IntValue(<<"2">>), Str(<<"2">>), Str(<<"x">>)},
     resume : ResumeDumps]
NoBody == [jobTitle |-> <<>>, difficulty |-> <<>>, numQuestions |-> Absent,
           resume |-> [start |-> <<>>, run |-> 0, rest |-> <<>>]]

InitGenerate ==
    /\ api_key \in BOOLEAN
    /\ cache = <<>>
    /\ generators = [r \in RequestIds |->
                        [pc |-> "received", data |-> NoBody, reply |-> NoReply]]
    /\ ScoreIdle /\ ParseIdle /\ DatasetIdle /\ TrainIdle /\ VectorIdle
    /\ InferIdle /\ VoiceIdle

\* data = await request.json(): request r resumes with its body
RequestJson(r) ==
    /\ generators[r].pc = "received"
    /\ \E data \in Bodies :
          generators' = [generators EXCEPT ![r].pc = "body", ![r].data = data]
    /\ UNCHANGED <<api_key, cache>>
    /\ UNCHANGED <<scoreVars, parseVars, datasetVars, trainVars, vectorVars, inferVars, voiceVars>>

\* lines 46-129 for request r, in one step of the event loop
GenerateQuestions(r) ==
    /\ generators[r].pc = "body"
    /\ LET data == generators[r].data IN
       IF IntRaises(data.numQuestions)
       THEN /\ generators' = [generators EXCEPT ![r].pc = "done",
                                                ![r].reply = ErrorReply]
            /\ cache' = cache
       ELSE LET job_title     == data.jobTitle
                num_questions == NumQuestions(data.numQuestions)
                cache_key     == KeyOf(data)
                enhanced      == EnhancedQuestions(num_questions, job_title)
            IN  IF InCache(cache, cache_key)
                THEN /\ generators' =
                            [generators EXCEPT ![r].pc = "done",
                                               ![r].reply = CacheReply(cache[cache_key])]
                     /\ cache' = cache
                ELSE IF ~api_key
                THEN /\ generators' =
                            [generators EXCEPT ![r].pc = "done",
                                               ![r].reply = FallbackReply(enhanced, FALSE)]
                     /\ cache' = cache
                ELSE \E outcome \in LLMOutcomes :
                        LET formatted == Formatted(outcome.parsed_questions,
                                                   num_questions, job_title)
                        IN  /\ cache' = CacheAfter(cache, cache_key, outcome,
                                                   formatted, enhanced)
                            /\ generators' =
                                  [generators EXCEPT
                                      ![r].pc = "done",
                                      ![r].reply =
                                          IF outcome.kind = "list"
                                          THEN AIReply(formatted)
                                          ELSE FallbackReply(enhanced, TRUE)]
    /\ UNCHANGED api_key
    /\ UNCHANGED <<scoreVars, parseVars, datasetVars, trainVars, vectorVars, inferVars, voiceVars>>

NextGenerate == \E r \in RequestIds : RequestJson(r) \/ GenerateQuestions(r)
SpecGenerate == InitGenerate /\ [][NextGenerate]_vars

\* request r has its body, and the body's numQuestions converts
HasKey(r) ==
    generators[r].pc # "received" /\ ~IntRaises(generators[r].data.numQuestions)
\* the (jobTitle, difficulty, numQuestions, first 1200 characters of the
\* serialized resume) of request r
RequestTuple(r) ==
    <<generators[r].data.jobTitle, generators[r].data.difficulty,
      NumQuestions(generators[r].data.numQuestions),
      ResumeSnippet(generators[r].data.resume)>>

\* C25: in every step of the interview generator, (1) an entry of _cache is
\* neither changed nor removed; (2) an entry is added only by a request whose
\* reply has source 'ai', and it holds that reply's questions; (3) a request
\* that runs when a request with the same (jobTitle, difficulty,
\* numQuestions, first 1200 characters of the serialized resume) has been
\* answered from the LLM returns exactly the cached questions with source
\* 'cache' and does not call the LLM.
C25_CacheWrittenOnceAfterAI ==
    [][/\ \A k \in DOMAIN cache : k \in DOMAIN cache' /\ cache'[k] = cache[k]
       /\ \A k \in DOMAIN cache' \ DOMAIN cache :
             \E r \in RequestIds :
                /\ generators[r].pc = "body" /\ generators'[r].pc = "done"
                /\ KeyOf(generators[r].data) = k
                /\ generators'[r].reply.source = "ai"
                /\ generators'[r].reply.llm_called
                /\ cache'[k] = generators'[r].reply.questions
       /\ \A r \in RequestIds :
             (/\ generators[r].pc = "body" /\ generators'[r].pc = "done"
              /\ HasKey(r)
              /\ \E q \in RequestIds :
                    /\ generators[q].pc = "done" /\ HasKey(q)
                    /\ generators[q].reply.source = "ai"
                    /\ RequestTuple(q) = RequestTuple(r))
             => /\ generators'[r].reply = CacheReply(cache[KeyOf(generators[r].data)])
                /\ generators'[r].reply.questions \in
                      {generators[q].reply.questions :
                          q \in {p \in RequestIds :
                                   /\ generators[p].pc = "done" /\ HasKey(p)
                                   /\ generators[p].reply.source = "ai"
                                   /\ RequestTuple(p) = RequestTuple(r)}}
      ]_vars

\* one request stored two questions, the second a padding one, for a long
\* resume; a later request with the same job title, numQuestions as a str
\* and a resume that differs after its first 1200 characters was answered from
\* the cache; with no entry lost
C25_Witness ==
    /\ generators[1].pc = "done" /\ generators[2].pc = "done"
    /\ generators[1].reply.source = "ai"
    /\ generators[1].reply.questions =
          <<[id |-> 1, question |-> AIQuestion(1)],
            [id |-> 2, question |-> PaddingQuestion(T_QAJob)]>>
    /\ generators[2].reply = CacheReply(generators[1].reply.questions)
    /\ generators[1].data.resume # generators[2].data.resume
    /\ generators[1].data.numQuestions = IntValue(<<"2">>)
    /\ generators[2].data.numQuestions = Str(<<"2">>)
    /\ Cardinality(DOMAIN cache) = 1


\* the requests answered so far whose cache key is k
AnsweredWithKey(k) ==
    {r \in RequestIds : /\ generators[r].pc = "done" /\ HasKey(r)
                        /\ KeyOf(generators[r].data) = k}

\* C26: with /generate requests interleaved at their one await, for every
\* cache key at most one request has a reply from the LLM, the entry of the
\* key holds that reply's questions, and a request that runs when its key is
\* in _cache neither calls the LLM nor changes _cache.
C26_OneGenerationPerKey ==
    /\ [](\A k \in DOMAIN cache :
             /\ Cardinality({r \in AnsweredWithKey(k) :
                                generators[r].reply.source = "ai"}) = 1
             /\ \A r \in AnsweredWithKey(k) :
                   /\ generators[r].reply.source \in {"ai", "cache"}
                      => generators[r].reply.questions = cache[k]
                   /\ generators[r].reply.source = "cache"
                      => ~generators[r].reply.llm_called)
    /\ [][\A r \in RequestIds :
             (/\ generators[r].pc = "body" /\ generators'[r].pc = "done"
              /\ HasKey(r) /\ KeyOf(generators[r].data) \in DOMAIN cache)
             => ~generators'[r].reply.llm_called /\ cache' = cache]_vars

\* both requests had their bodies, with one cache key, before either went on;
\* request 2 went first and stored the LLM's question, request 1 got it from
\* the cache
C26_Witness ==
    /\ generators[1].pc = "done" /\ generators[2].pc = "done"
    /\ generators[1].data = generators[2].data
    /\ generators[1].data.jobTitle = T_DevJob
    /\ generators[2].reply = AIReply(<<[id |-> 1, question |-> AIQuestion(1)]>>)
    /\ generators[1].reply = CacheReply(<<[id |-> 1, question |-> AIQuestion(1)]>>)
    /\ DOMAIN cache = {KeyOf(generators[1].data)}

-----------------------------------------------------------------------------
(***************************************************************************)
(* voice_stt.py: the /interview/stt handler and its temporary files        *)
(*                                                                         *)
(* transcribe_audio has one await, audio.read(); the handler is modelled   *)
(* in two steps, up to that await and from it to the end of the finally    *)
(* block.  What the environment decides - whether ffmpeg is on PATH,       *)
(* whether the conversion leaves a usable WAV, what Whisper returns or     *)
(* raises, whether os.remove succeeds - is chosen in the step.             *)
(***************************************************************************)
MinContent == 10000
WebmPath == "tmp.webm"
WavPath  == "tmp.wav"

\* the exceptions that reach `except Exception`, each with the phrases of
\* lines 233-243 that str(e) (for the last three, lower-cased) contains
ErrorMessages ==
    {[text |-> "Invalid data found when processing input", phrases |-> {"invalid data"}],
     [text |-> "Whisper model failed on ffmpeg output", phrases |-> {"whisper", "model", "ffmpeg"}],
     [text |-> "Failed to decode audio", phrases |-> {"decode"}],
     [text |-> "out of memory", phrases |-> {}]}

\* lines 233-248: the status code for an exception
StatusOfError(e) ==
    IF e.phrases \cap {"invalid data", "unrecognized format"} # {} THEN 400
    ELSE IF e.phrases \cap {"whisper", "model"} # {} THEN 503
    ELSE 500

\* the removal skipped
KeptFile(files, path, removable) == files
\* `if path and os.path.exists(path): try: os.remove(path) except: warn`
RemovedFile(files, path, removable) ==
    IF path # None /\ path \in files /\ removable THEN files \ {path} ELSE files

\* the paths that the finally block failed to delete and logged
FailedToDelete(files, path, removable) ==
    IF path # None /\ path \in files /\ ~removable THEN {path} ELSE {}

\* lines 252-266
CleanedUp(files, webm, wav, removable) ==
    RemovedFile(RemovedFile(files, webm, webm \in removable), wav, wav \in removable)

ContentSizes == {0, 9999, MinContent, 20000}
Uploads == [filename : {<<>>, <<"a">>}, size : ContentSizes]
\* model.transcribe(audio_path): a result with or without text, or an exception
Transcriptions ==
    {[kind |-> "text", error |-> None], [kind |-> "silence", error |-> None]}
    \cup {[kind |-> "raises", error |-> e] : e \in ErrorMessages}

InitVoice ==
    /\ model \in BOOLEAN
    /\ temp_files = {}
    /\ stt \in [pc : {"received"}, audio : Uploads, temp_webm_path : {None},
                temp_wav_path : {None}, audio_path : {None}, status_code : {0},
                transcript : {None}, failed_to_delete : {{}}]
    /\ ScoreIdle /\ ParseIdle /\ DatasetIdle /\ TrainIdle /\ VectorIdle
    /\ InferIdle /\ GenIdle

\* the handler from the locals after the await to its end, finally included
Finished(webm, wav, path, status, text, removable) ==
    /\ temp_files' = CleanedUp(temp_files \cup ({wav} \ {None}), webm, wav, removable)
    /\ stt' = [stt EXCEPT !.pc = "finished", !.temp_wav_path = wav,
                          !.audio_path = path, !.status_code = status,
                          !.transcript = text,
                          !.failed_to_delete =
                              FailedToDelete(temp_files, webm, webm \in removable)
                              \cup FailedToDelete(temp_files \cup ({wav} \ {None}), wav,
                                                  wav \in removable)]

\* lines 118-146: the two rejections, then the .webm file is created and the
\* handler awaits audio.read()
TranscribeAudio ==
    /\ stt.pc = "received"
    /\ IF ~model
       THEN /\ stt' = [stt EXCEPT !.pc = "finished", !.status_code = 503]
            /\ temp_files' = temp_files
       ELSE IF stt.audio.filename = <<>>
       THEN /\ stt' = [stt EXCEPT !.pc = "finished", !.status_code = 400]
            /\ temp_files' = temp_files
       ELSE /\ stt' = [stt EXCEPT !.pc = "reading", !.temp_webm_path = WebmPath]
            /\ temp_files' = temp_files \cup {WebmPath}
    /\ UNCHANGED model
    /\ UNCHANGED <<scoreVars, parseVars, datasetVars, trainVars, vectorVars, inferVars, genVars>>

\* lines 146-266: the upload is read (or the read raises) and the handler runs
\* to its end
AudioRead ==
    /\ stt.pc = "reading"
    /\ \E read_raises \in BOOLEAN, ffmpeg \in BOOLEAN, usable_wav \in BOOLEAN,
          result \in Transcriptions, removable \in SUBSET {WebmPath, WavPath} :
          LET webm == stt.temp_webm_path
              size == stt.audio.size
          IN  IF read_raises
              THEN Finished(webm, None, None, 500, None, removable)
              ELSE IF size = 0 \/ size < MinContent
              THEN Finished(webm, None, None, 400, None, removable)
              ELSE IF ~ffmpeg
              THEN Finished(webm, None, None, 503, None, removable)
              ELSE LET audio_path == IF usable_wav THEN WavPath ELSE webm
                   IN  IF result.kind = "raises"
                       THEN Finished(webm, WavPath, audio_path,
                                     StatusOfError(result.error), None, removable)
                       ELSE Finished(webm, WavPath, audio_path, 200,
                                     IF result.kind = "text" THEN "text"
                                     ELSE "[No speech detected]", removable)
    /\ UNCHANGED model
    /\ UNCHANGED <<scoreVars, parseVars, datasetVars, trainVars, vectorVars, inferVars, genVars>>

NextVoice == TranscribeAudio \/ AudioRead
SpecVoice == InitVoice /\ [][NextVoice]_vars

\* the request was rejected for an unloaded model or an empty filename
RejectedEarly == stt.pc = "finished" /\ (~model \/ stt.audio.filename = <<>>)

\* C27 (as stated): when the request has finished, no temporary .webm or
\* .wav file is left, on any path.
C27_TempFilesDeleted ==
    stt.pc = "finished" => temp_files = {}

\* C27 (amended): when the request has finished, the temporary files left
\* are exactly those whose os.remove raised, which the handler logged; a
\* request rejected for an unloaded model or an empty filename created no
\* temporary file.
C27_TempFilesDeletedUnlessRemoveFails ==
    /\ stt.pc = "finished" => temp_files = stt.failed_to_delete
    /\ RejectedEarly =>
          /\ stt.temp_webm_path = None /\ stt.temp_wav_path = None
          /\ temp_files = {} /\ stt.status_code \in {400, 503}

\* a transcription error after a failed conversion: both files were created,
\* both are gone
C27_Witness ==
    /\ stt.pc = "finished" /\ stt.status_code = 503
    /\ stt.temp_webm_path = WebmPath /\ stt.temp_wav_path = WavPath
    /\ stt.audio_path = WebmPath
    /\ temp_files = {} /\ stt.failed_to_delete = {}

-----------------------------------------------------------------------------
(* parse_fn's confidence and score as numbers                               *)

\* C28: whenever the ML parser has parsed a text, for every model output and
\* also with zero skill outputs, the confidence is a number between 0 and 1,
\* the predicted score is between 0 and 100, and a finished request was
\* answered by the model exactly when the confidence reached 0.7.
C28_ConfidenceIsANumberInRange ==
    ParsedByML =>
        /\ confidence.kind = "num"
        /\ 0 <= confidence.num /\ confidence.num <= confidence.den
        /\ 0 <= parse_fn(text_content, model_out).score
        /\ parse_fn(text_content, model_out).score <= 100
        /\ ppc = "done" =>
              ((response.data.kind = "ml") <=> 10 * confidence.num >= 7 * confidence.den)

-----------------------------------------------------------------------------
(* prepare_resume_dataset.main when no record survives                      *)

\* main has ended, normally or by an exception
MainEnded == input_exists /\ dpc \in {"done", "ZeroDivisionError"}

\* C29: when no record survives, main ends having written both shard files,
\* each empty, and without raising an exception.
C29_EmptyDatasetFinishes ==
    (MainEnded /\ examples = <<>>) =>
        /\ train_file = [written |-> TRUE, rows |-> <<>>]
        /\ val_file = [written |-> TRUE, rows |-> <<>>]
        /\ dpc = "done"

-----------------------------------------------------------------------------
(* calculate_quality_score in its two numeric arguments                     *)

\* the resumes of the calls that are compared: every summary and email, no
\* or one experience entry, no or one project, no or two certifications
ComparedResumes ==
    [personal_info : [summary : Summaries, email : Emails],
     experience : {<<>>} \cup {<<e>> : e \in ExperienceEntries},
     projects : {<<>>} \cup {<<p>> : p \in ProjectEntries},
     certifications : {[kind |-> "str", val |-> T_Unknown],
                       [kind |-> "list", val |-> <<1, 2>>]}]

InitCompare ==
    /\ resume \in ComparedResumes
    /\ now = 0
    /\ experience_summary = <<>>
    /\ skills \in {ListOfLen(n) : n \in SkillCountArgs}
    /\ experience_years \in ExperienceYearsArgs
    /\ education_level \in EducationLevelArgs
    /\ score = None
    /\ qpc = "call"
    /\ ParseIdle /\ DatasetIdle /\ TrainIdle /\ VectorIdle /\ InferIdle /\ GenIdle /\ VoiceIdle

SpecCompare == InitCompare /\ [][NextScore]_vars

\* C30: with the resume record and the education level of a call held fixed,
\* a call with experience_years at least as large and a skill list at least
\* as long (the list of the call with skills added) returns a score that is
\* not lower.
C30_ScoreIsMonotone ==
    qpc = "done" =>
        \A more_years \in ExperienceYearsArgs, more_skills \in SkillCountArgs :
            (more_years >= experience_years /\ more_skills >= Len(skills))
                => calculate_quality_score(
                       resume, skills \o ListOfLen(more_skills - Len(skills)),
                       more_years, education_level) >= score

\* a call with 3.0 years and 5 skills scored below 100; two more skills and
\* two more years score strictly higher, twenty more years no higher than those
C30_Witness ==
    /\ qpc = "done"
    /\ experience_years = 30 /\ Len(skills) = 5 /\ score < 100
    /\ calculate_quality_score(resume, ListOfLen(7), 50, education_level) > score
    /\ calculate_quality_score(resume, skills, 100, education_level) > score
    /\ calculate_quality_score(resume, ListOfLen(15), 100, education_level)
          >= calculate_quality_score(resume, ListOfLen(7), 50, education_level)

=============================================================================
